---- MODULE Spec2Model ----
(***************************************************************************)
(* Audit-and-notification core of the logic-camp CRM backend:              *)
(*   ActivityLog      (src/unnamed/part_003)                               *)
(*   Notification     (src/unnamed/part_000)                               *)
(*   NotificationType (src/backend/src/models/NotificationType.ts)         *)
(*   user controller  (src/backend/src/controllers/userController.ts)      *)
(*                                                                         *)
(* JavaScript values are modelled as strings; the empty string "" stands   *)
(* for the falsy values of the language ("", 0, false, null, undefined).   *)
(* Dates are integers counting days.                                       *)
(***************************************************************************)
EXTENDS Integers, Sequences, FiniteSets, TLC

VARIABLES
    activity_logs,       \* collection 'activity_logs', in insertion order
    nextLogId,           \* next _id the activity_logs collection hands out
    logRes,              \* the last ActivityLog.createLog call: its entity type, action and outcome
    sanArg,              \* sanitizeData harness: the argument value
    sanObj,              \* sanitizeData harness: the caller's object as it is after the call
    sanRet,              \* sanitizeData harness: the value returned
    notification_types,  \* collection 'notification_types': key -> document
    notifications,       \* collection 'notifications': _id -> document
    nextId,              \* next _id the notifications collection hands out
    now,                 \* the clock, in days
    docs,                \* per caller: the Notification document it has loaded
    res,                 \* outcome of the last Notification operation
    tplArg,              \* renderTemplate harness: this.template
    varsArg,             \* renderTemplate harness: the variables argument
    rendered,            \* renderTemplate harness: the value returned
    bulk,                \* the markAllAsRead call the store is executing, if any
    seeding,             \* per seeder: where its seedDefaultTypes loop stands
    calls,               \* per caller: the createNotification call it is inside
    users,               \* collection 'users': _id -> document
    httpRes,             \* the user and auth controllers' last HTTP response
    tokens,              \* the access tokens signed so far
    authRes,             \* what authenticate did with the last request
    boot                 \* the server process: how far startServer has got

vars == <<activity_logs, nextLogId, logRes, sanArg, sanObj, sanRet, notification_types, notifications,
          nextId, now, docs, res, bulk, seeding, calls, tplArg, varsArg, rendered, users, httpRes,
          tokens, authRes, boot>>

auditVars == <<activity_logs, nextLogId, logRes>>
sanVars == <<sanArg, sanObj, sanRet>>
flightVars == <<seeding, calls>>
notifVars == <<notification_types, notifications, nextId, now, docs, res, bulk, flightVars>>
renderVars == <<tplArg, varsArg, rendered>>
hostVars == <<tokens, authRes, boot>>
userVars == <<users, httpRes, hostVars>>

(***************************************************************************)
(* Bounds of the model.                                                    *)
(***************************************************************************)
MaxLogs == 2
MaxTplLen == 3
MaxVars == 2
MaxNotifs == 2
MaxTime == 90
MaxUsers == 2

(***************************************************************************)
(* Schema.Types.Mixed values (old_data / new_data): null or undefined, a   *)
(* string, or a plain object mapping field names to values.                *)
(***************************************************************************)
EmptyFields == [k \in {} |-> ""]

NullData == [kind |-> "null", str |-> "", fields |-> EmptyFields]

StrData(s) == [kind |-> "string", str |-> s, fields |-> EmptyFields]

ObjData(f) == [kind |-> "object", str |-> "", fields |-> f]

\* every object over a subset of the keys K with values in V
Objects(K, V) == {ObjData(f) : f \in UNION {[S -> V] : S \in SUBSET K}}

\* JavaScript truthiness of a field value
Truthy(v) == v # ""

\* JavaScript truthiness of a Mixed value
TruthyData(d) ==
    \/ d.kind = "object"
    \/ d.kind = "string" /\ Truthy(d.str)

(***************************************************************************)
(* ActivityLog: sanitizeData and the pre('save') hook.                     *)
(***************************************************************************)
sensitiveFields == {"password", "card_number", "cvv", "ssn", "tax_id"}

REDACTED == "***REDACTED***"

\* the copy sanitizeData builds: { ...data }, then the forEach over sensitiveFields
SanitizedCopy(data) ==
    ObjData([k \in DOMAIN data.fields |->
                IF k \in sensitiveFields /\ Truthy(data.fields[k])
                THEN REDACTED
                ELSE data.fields[k]])

\* sanitizeData(data): ret is the value returned, arg the caller's object after the call
sanitizeData(data) ==
    IF ~TruthyData(data) \/ data.kind # "object"
    THEN [ret |-> data, arg |-> data]
    ELSE [ret |-> SanitizedCopy(data), arg |-> data]

\* ActivityLogSchema.pre('save')
PreSaveLog(doc) ==
    [doc EXCEPT
        !.old_data = IF TruthyData(doc.old_data) THEN sanitizeData(doc.old_data).ret
                     ELSE doc.old_data,
        !.new_data = IF TruthyData(doc.new_data) THEN sanitizeData(doc.new_data).ret
                     ELSE doc.new_data]

(***************************************************************************)
(* ActivityLog schema validation.  A missing argument is "".               *)
(***************************************************************************)
AuditEntityTypes ==
    {"users", "customers", "leads", "projects", "project_services",
     "goals", "tasks", "files", "notifications", "notification_types",
     "messages", "message_attachments", "business_directories",
     "customer_charge_details", "upsells"}

AuditActions == {"create", "update", "delete", "view"}

\* mutant: the enum on entity_type is dropped, a value is only required
ValidateLog_NoEntityEnum(doc) ==
    {p \in {"changed_by"} : doc.changed_by = ""}
    \cup {p \in {"entity_id"} : doc.entity_id = ""}
    \cup {p \in {"entity_type"} : doc.entity_type = ""}
    \cup {p \in {"action"} : doc.action \notin AuditActions}

\* mutant: the enum on action is dropped, a value is only required
ValidateLog_NoActionEnum(doc) ==
    {p \in {"changed_by"} : doc.changed_by = ""}
    \cup {p \in {"entity_id"} : doc.entity_id = ""}
    \cup {p \in {"entity_type"} : doc.entity_type \notin AuditEntityTypes}
    \cup {p \in {"action"} : doc.action = ""}

\* the paths of the ValidationError; {} when the document is valid
ValidateLog(doc) ==
    {p \in {"changed_by"} : doc.changed_by = ""}
    \cup {p \in {"entity_id"} : doc.entity_id = ""}
    \cup {p \in {"entity_type"} : doc.entity_type \notin AuditEntityTypes}
    \cup {p \in {"action"} : doc.action \notin AuditActions}

\* mutant: a valid call overwrites the latest stored record when there is one
createLog_Overwrites(changedBy, entityId, entityType, action, oldData, newData, storeUp) ==
    LET doc == [_id |-> nextLogId,
                changed_by |-> changedBy,
                entity_id |-> entityId,
                entity_type |-> entityType,
                action |-> action,
                old_data |-> oldData,
                new_data |-> newData,
                created_at |-> now]
        call == [entity_type |-> entityType, action |-> action]
    IN  IF ValidateLog(doc) # {} \/ ~storeUp
        THEN /\ logRes' = [call |-> call, status |-> "error", errors |-> {"storage"}]
             /\ UNCHANGED <<activity_logs, nextLogId>>
        ELSE /\ nextLogId <= MaxLogs
             /\ activity_logs' =
                    IF activity_logs = <<>> THEN <<PreSaveLog(doc)>>
                    ELSE [activity_logs EXCEPT ![Len(activity_logs)] = PreSaveLog(doc)]
             /\ nextLogId' = nextLogId + 1
             /\ logRes' = [call |-> call, status |-> "ok", errors |-> {}]

\* mutant: a refused insert is caught and the call resolves all the same
createLog_SwallowsFailure(changedBy, entityId, entityType, action, oldData, newData, storeUp) ==
    LET doc == [_id |-> nextLogId,
                changed_by |-> changedBy,
                entity_id |-> entityId,
                entity_type |-> entityType,
                action |-> action,
                old_data |-> oldData,
                new_data |-> newData,
                created_at |-> now]
        errs == ValidateLog(doc)
        call == [entity_type |-> entityType, action |-> action]
    IN  IF errs # {}
        THEN /\ logRes' = [call |-> call, status |-> "error", errors |-> errs]
             /\ UNCHANGED <<activity_logs, nextLogId>>
        ELSE IF ~storeUp
        THEN /\ logRes' = [call |-> call, status |-> "ok", errors |-> {}]
             /\ UNCHANGED <<activity_logs, nextLogId>>
        ELSE /\ nextLogId <= MaxLogs
             /\ activity_logs' = Append(activity_logs, PreSaveLog(doc))
             /\ nextLogId' = nextLogId + 1
             /\ logRes' = [call |-> call, status |-> "ok", errors |-> {}]

\* ActivityLog.createLog: this.create(...) validates, runs pre('save'), inserts.
\* storeUp is whether the store accepts the insert.
createLog(changedBy, entityId, entityType, action, oldData, newData, storeUp) ==
    LET doc == [_id |-> nextLogId,
                changed_by |-> changedBy,
                entity_id |-> entityId,
                entity_type |-> entityType,
                action |-> action,
                old_data |-> oldData,
                new_data |-> newData,
                created_at |-> now]
        errs == ValidateLog(doc)
        call == [entity_type |-> entityType, action |-> action]
    IN  IF errs # {}
        THEN /\ logRes' = [call |-> call, status |-> "error", errors |-> errs]
             /\ UNCHANGED <<activity_logs, nextLogId>>
        ELSE IF ~storeUp
        THEN /\ logRes' = [call |-> call, status |-> "error", errors |-> {"storage"}]
             /\ UNCHANGED <<activity_logs, nextLogId>>
        ELSE /\ nextLogId <= MaxLogs
             /\ activity_logs' = Append(activity_logs, PreSaveLog(doc))
             /\ nextLogId' = nextLogId + 1
             /\ logRes' = [call |-> call, status |-> "ok", errors |-> {}]

(***************************************************************************)
(* ActivityLog retention: the TTL index { created_at: 1 } with             *)
(* expireAfterSeconds 63072000.  The store's TTL monitor removes, one at a *)
(* time, the documents whose created_at lies that far in the past.         *)
(***************************************************************************)
\* expireAfterSeconds: 63072000, in days
RetentionDays == 730

\* mutant: the index expires documents after one year
AuditExpired_OneYear ==
    {i \in 1..Len(activity_logs) : activity_logs[i].created_at + 365 <= now}

\* mutant: the index is partial, on the records of views only
AuditExpired_ViewsOnly ==
    {i \in 1..Len(activity_logs) :
        /\ activity_logs[i].action = "view"
        /\ activity_logs[i].created_at + RetentionDays <= now}

\* the positions of the documents the TTL index lets the store expire
AuditExpired ==
    {i \in 1..Len(activity_logs) : activity_logs[i].created_at + RetentionDays <= now}

RemoveAt(seq, i) == SubSeq(seq, 1, i - 1) \o SubSeq(seq, i + 1, Len(seq))

\* the TTL monitor removes one expired document
AuditTTLDelete(i) ==
    /\ i \in AuditExpired
    /\ activity_logs' = RemoveAt(activity_logs, i)
    /\ UNCHANGED <<nextLogId, logRes>>

(***************************************************************************)
(* NotificationType: texts are sequences of tokens, a token being a run of *)
(* literal characters or one placeholder {{name}} (the pattern             *)
(* {{\s*name\s*}} matches it whatever blanks surround the name).           *)
(***************************************************************************)
Lit(s) == [t |-> "lit", s |-> s]

Ph(name) == [t |-> "ph", s |-> name]

\* keys that do not form a valid pattern inside new RegExp(`{{\s*${key}\s*}}`)
InvalidPatternKeys == {"("}

\* rendered.replace(placeholder, value): every {{key}} becomes value
RECURSIVE ReplaceAll(_, _, _)
ReplaceAll(text, key, value) ==
    IF text = <<>> THEN <<>>
    ELSE LET tok == Head(text)
         IN  (IF tok.t = "ph" /\ tok.s = key THEN value ELSE <<tok>>)
             \o ReplaceAll(Tail(text), key, value)

\* the forEach over Object.keys(variables): variables is the sequence of its
\* <<key, value>> entries in insertion order; a falsy value is the empty text
RECURSIVE RenderLoop(_, _)
RenderLoop(text, variables) ==
    IF variables = <<>> THEN [threw |-> FALSE, text |-> text]
    ELSE LET key == Head(variables)[1]
             value == Head(variables)[2]
         IN  IF key \in InvalidPatternKeys
             THEN [threw |-> TRUE, text |-> <<>>]
             ELSE RenderLoop(ReplaceAll(text, key, value), Tail(variables))

\* NotificationType.renderTemplate(variables), with this.template = template
renderTemplate(template, variables) == RenderLoop(template, variables)

\* seedDefaultTypes: the defaultTypes catalogue, key -> template
DefaultTypes ==
    [project_created |->
        <<Lit("New project \""), Ph("project_name"),
          Lit("\" has been created and assigned to "), Ph("manager_name"), Lit(".")>>,
     task_assigned |->
        <<Lit("You have been assigned a new task: \""), Ph("task_title"),
          Lit("\" in project \""), Ph("project_name"), Lit("\".")>>,
     task_completed |->
        <<Lit("Task \""), Ph("task_title"), Lit("\" has been completed by "),
          Ph("employee_name"), Lit(".")>>,
     project_status_changed |->
        <<Lit("Project \""), Ph("project_name"), Lit("\" status has been changed from "),
          Ph("old_status"), Lit(" to "), Ph("new_status"), Lit(".")>>,
     lead_converted |->
        <<Lit("Lead \""), Ph("customer_name"),
          Lit("\" has been successfully converted to a customer by "),
          Ph("agent_name"), Lit(".")>>,
     payment_received |->
        <<Lit("Payment of $"), Ph("amount"), Lit(" has been received for project \""),
          Ph("project_name"), Lit("\".")>>,
     goal_created |->
        <<Lit("New goal \""), Ph("goal_title"), Lit("\" has been created for project \""),
          Ph("project_name"), Lit("\".")>>,
     file_uploaded |->
        <<Ph("uploader_name"), Lit(" has uploaded a new file \""), Ph("file_name"),
          Lit("\" to project \""), Ph("project_name"), Lit("\".")>>,
     project_overdue |->
        <<Lit("Project \""), Ph("project_name"),
          Lit("\" is overdue. Expected completion date was "), Ph("end_date"), Lit(".")>>,
     upsell_opportunity |->
        <<Lit("Upsell opportunity of $"), Ph("amount"), Lit(" identified for project \""),
          Ph("project_name"), Lit("\".")>>]

\* seedDefaultTypes: the defaultTypes catalogue, key -> description
DefaultDescriptions ==
    [project_created |-> "Notification when a new project is created",
     task_assigned |-> "Notification when a task is assigned to a user",
     task_completed |-> "Notification when a task is completed",
     project_status_changed |-> "Notification when project status changes",
     lead_converted |-> "Notification when a lead is converted to customer",
     payment_received |-> "Notification when payment is received",
     goal_created |-> "Notification when a new goal is created",
     file_uploaded |-> "Notification when a file is uploaded to a project",
     project_overdue |-> "Notification when a project becomes overdue",
     upsell_opportunity |-> "Notification for upsell opportunities"]

\* seedDefaultTypes: the keys of defaultTypes, in the order of the array
DefaultKeys ==
    <<"project_created", "task_assigned", "task_completed", "project_status_changed",
      "lead_converted", "payment_received", "goal_created", "file_uploaded",
      "project_overdue", "upsell_opportunity">>

\* String.prototype.toLowerCase, on the spellings of keys that callers pass
toLowerCase(s) ==
    CASE s = "TASK_ASSIGNED" -> "task_assigned"
      [] s = "Task_Assigned" -> "task_assigned"
      [] s = "Weekly_Digest" -> "weekly_digest"
      [] s = "NO_SUCH_TYPE" -> "no_such_type"
      [] OTHER -> s

\* mutant: the key path has no lowercase setter
castKey_AsGiven(key) == key

\* the setter of the key path (lowercase: true), which Mongoose applies to a
\* key it stores and to the key of a query filter
castKey(key) == toLowerCase(key)

\* the document a default type is stored as at time t
DefaultDoc(k, t) ==
    [key |-> castKey(k), description |-> DefaultDescriptions[k],
     template |-> DefaultTypes[k], updated_at |-> t]

\* mutant: seeding inserts the defaults that are missing and leaves stored types alone
seedDefaultTypes_InsertOnly ==
    notification_types' =
        [k \in DOMAIN notification_types \cup DOMAIN DefaultTypes |->
            IF k \in DOMAIN notification_types
            THEN notification_types[k]
            ELSE DefaultDoc(k, now)]

\* seedDefaultTypes: findOneAndUpdate({ key }, type, { upsert: true }) for each default
seedDefaultTypes ==
    notification_types' =
        [k \in DOMAIN notification_types \cup DOMAIN DefaultTypes |->
            IF k \in DOMAIN DefaultTypes
            THEN DefaultDoc(k, now)
            ELSE notification_types[k]]

\* NotificationType.findByKey: <<>> is null
findByKey(key) ==
    LET k == castKey(toLowerCase(key))
    IN  IF k \in DOMAIN notification_types THEN <<notification_types[k]>> ELSE <<>>

(***************************************************************************)
(* seedDefaultTypes step by step.  A seeder awaits one findOneAndUpdate    *)
(* per default type.  The store updates a matching document in one step;   *)
(* when none matches it goes on to insert one, and the unique index on key *)
(* rejects the insert if another upsert has stored the key meanwhile.      *)
(***************************************************************************)
Seeders == {"s1", "s2"}

NotSeeding == [at |-> 0, inserting |-> FALSE, failed |-> FALSE]

SeedIdle == [s \in Seeders |-> NotSeeding]

\* seeder s calls seedDefaultTypes
seedBegin(s) ==
    /\ seeding[s].at = 0
    /\ seeding' = [seeding EXCEPT ![s] = [at |-> 1, inserting |-> FALSE, failed |-> FALSE]]
    /\ UNCHANGED notification_types

\* the position after the upsert of default number i
SeedAfter(i) ==
    IF i = Len(DefaultKeys) THEN NotSeeding
    ELSE [at |-> i + 1, inserting |-> FALSE, failed |-> FALSE]

\* the query of one findOneAndUpdate: a match is updated, no match leads to an insert
seedMatch(s) ==
    LET k == castKey(DefaultKeys[seeding[s].at])
    IN  /\ seeding[s].at > 0
        /\ ~ seeding[s].inserting
        /\ IF k \in DOMAIN notification_types
           THEN /\ notification_types' =
                    [notification_types EXCEPT
                        ![k] = DefaultDoc(DefaultKeys[seeding[s].at], now)]
                /\ seeding' = [seeding EXCEPT ![s] = SeedAfter(seeding[s].at)]
           ELSE /\ seeding' = [seeding EXCEPT ![s].inserting = TRUE]
                /\ UNCHANGED notification_types

\* the insert of one findOneAndUpdate; on a duplicate key the store either
\* retries the upsert as an update or fails the call, which ends the seeding
seedInsert(s) ==
    LET k == castKey(DefaultKeys[seeding[s].at])
    IN  /\ seeding[s].at > 0
        /\ seeding[s].inserting
        /\ IF k \notin DOMAIN notification_types
           THEN /\ notification_types' =
                    [j \in DOMAIN notification_types \cup {k} |->
                        IF j = k THEN DefaultDoc(DefaultKeys[seeding[s].at], now)
                        ELSE notification_types[j]]
                /\ seeding' = [seeding EXCEPT ![s] = SeedAfter(seeding[s].at)]
           ELSE \/ /\ notification_types' =
                        [notification_types EXCEPT
                            ![k] = DefaultDoc(DefaultKeys[seeding[s].at], now)]
                   /\ seeding' = [seeding EXCEPT ![s] = SeedAfter(seeding[s].at)]
                \/ /\ seeding' = [seeding EXCEPT ![s] = [NotSeeding EXCEPT !.failed = TRUE]]
                   /\ UNCHANGED notification_types

(***************************************************************************)
(* Notification.  A title is a text whose blanks at either end are tokens  *)
(* of their own, Lit(" ").  read_at is <<>> when unset and <<t>> when set. *)
(***************************************************************************)
NoDate == <<>>

At(t) == <<t>>

NotifEntityTypes ==
    {"projects", "tasks", "goals", "leads", "customers",
     "files", "upsells", "messages", "users"}

NotifTypes == {"info", "warning", "success", "error"}

TitleMaxLength == 200

\* expireAfterSeconds: 7776000, in days
ReadTTLDays == 90

RECURSIVE TextLen(_)
TextLen(text) == IF text = <<>> THEN 0 ELSE Len(Head(text).s) + TextLen(Tail(text))

IsBlank(tok) == tok = Lit(" ")

RECURSIVE TrimLeft(_)
TrimLeft(text) ==
    IF text # <<>> /\ IsBlank(Head(text)) THEN TrimLeft(Tail(text)) ELSE text

RECURSIVE TrimRight(_)
TrimRight(text) ==
    IF text # <<>> /\ IsBlank(text[Len(text)])
    THEN TrimRight(SubSeq(text, 1, Len(text) - 1))
    ELSE text

\* the schema's trim: true
Trim(text) == TrimLeft(TrimRight(text))

\* one findOneAndUpdate({ key }, type, { upsert: true, new: true }): the type is
\* inserted or its fields overwritten; the schema's trim applies to the template
upsertType(key, description, template) ==
    notification_types' =
        [k \in DOMAIN notification_types \cup {castKey(key)} |->
            IF k = castKey(key)
            THEN [key |-> castKey(key), description |-> description,
                  template |-> Trim(template), updated_at |-> now]
            ELSE notification_types[k]]

\* the read_at validator, run when a value is given
ReadAtValid(is_read, read_at) ==
    read_at = NoDate \/ (IF is_read THEN read_at # NoDate ELSE read_at = NoDate)

\* mutant: entity_type has no enum validator
ValidateNotification_AnyEntityType(doc) ==
    {p \in {"user_id"} : doc.user_id = ""}
    \cup {p \in {"notification_type_id"} : doc.notification_type_id = ""}
    \cup {p \in {"type"} : doc.type \notin NotifTypes}
    \cup {p \in {"title"} : doc.title = <<>> \/ TextLen(doc.title) > TitleMaxLength}
    \cup {p \in {"read_at"} : ~ReadAtValid(doc.is_read, doc.read_at)}

\* the paths of the ValidationError of a new notification; a missing argument is ""
ValidateNotification(doc) ==
    {p \in {"user_id"} : doc.user_id = ""}
    \cup {p \in {"notification_type_id"} : doc.notification_type_id = ""}
    \cup {p \in {"entity_type"} : doc.entity_type # "" /\ doc.entity_type \notin NotifEntityTypes}
    \cup {p \in {"type"} : doc.type \notin NotifTypes}
    \cup {p \in {"title"} : doc.title = <<>> \/ TextLen(doc.title) > TitleMaxLength}
    \cup {p \in {"read_at"} : ~ReadAtValid(doc.is_read, doc.read_at)}

\* NotificationSchema.pre('save') on the fields of a document; modIsRead is
\* this.isModified('is_read')
PreSaveNotification(doc, modIsRead) ==
    IF ~modIsRead THEN doc
    ELSE IF doc.is_read /\ doc.read_at = NoDate THEN [doc EXCEPT !.read_at = At(now)]
    ELSE IF ~doc.is_read THEN [doc EXCEPT !.read_at = NoDate]
    ELSE doc

Outcome(op, status, error) == [op |-> op, status |-> status, error |-> error]

\* the setter trim: true of entity_type, on the strings callers pass for it
trim(s) ==
    CASE s = " tasks " -> "tasks"
      [] s = " invoices " -> "invoices"
      [] OTHER -> s

\* the document this.create({...}) builds: setters and defaults applied
NewNotification(userId, typeId, title, type, triggeredBy, entityId, entityType) ==
    [user_id |-> userId,
     triggered_by |-> triggeredBy,
     notification_type_id |-> typeId,
     entity_id |-> entityId,
     entity_type |-> trim(entityType),
     type |-> IF type = "" THEN "info" ELSE type,
     title |-> Trim(title),
     is_read |-> FALSE,
     read_at |-> NoDate,
     created_at |-> now]

\* mutant: no check that the type was found; the key is stored as the reference
createNotification_NoTypeCheck(userId, notificationTypeKey, title, type, triggeredBy, entityId, entityType) ==
    LET doc == NewNotification(userId, notificationTypeKey,
                               title, type, triggeredBy, entityId, entityType)
    IN  IF ValidateNotification(doc) # {}
        THEN /\ res' = Outcome("createNotification", "error", "validation")
             /\ UNCHANGED <<notifications, nextId>>
        ELSE /\ nextId <= MaxNotifs
             /\ notifications' =
                    [i \in DOMAIN notifications \cup {nextId} |->
                        IF i = nextId THEN doc ELSE notifications[i]]
             /\ nextId' = nextId + 1
             /\ res' = Outcome("createNotification", "ok", "")

\* mutant: the title stored is the template's text, rendered with no values
createNotification_RendersTemplate(userId, notificationTypeKey, title, type, triggeredBy, entityId, entityType) ==
    IF castKey(notificationTypeKey) \notin DOMAIN notification_types
    THEN /\ res' = Outcome("createNotification", "error", "not found")
         /\ UNCHANGED <<notifications, nextId>>
    ELSE LET doc == NewNotification(userId, notification_types[castKey(notificationTypeKey)].key,
                        renderTemplate(notification_types[castKey(notificationTypeKey)].template, <<>>).text,
                        type, triggeredBy, entityId, entityType)
         IN  IF ValidateNotification(doc) # {}
             THEN /\ res' = Outcome("createNotification", "error", "validation")
                  /\ UNCHANGED <<notifications, nextId>>
             ELSE /\ nextId <= MaxNotifs
                  /\ notifications' =
                        [i \in DOMAIN notifications \cup {nextId} |->
                            IF i = nextId THEN doc ELSE notifications[i]]
                  /\ nextId' = nextId + 1
                  /\ res' = Outcome("createNotification", "ok", "")

\* mutant: the notification is stored already read
createNotification_StoresRead(userId, notificationTypeKey, title, type, triggeredBy, entityId, entityType) ==
    IF castKey(notificationTypeKey) \notin DOMAIN notification_types
    THEN /\ res' = Outcome("createNotification", "error", "not found")
         /\ UNCHANGED <<notifications, nextId>>
    ELSE LET doc == NewNotification(userId, notification_types[castKey(notificationTypeKey)].key,
                                    title, type, triggeredBy, entityId, entityType)
         IN  IF ValidateNotification(doc) # {}
             THEN /\ res' = Outcome("createNotification", "error", "validation")
                  /\ UNCHANGED <<notifications, nextId>>
             ELSE /\ nextId <= MaxNotifs
                  /\ notifications' =
                        [i \in DOMAIN notifications \cup {nextId} |->
                            IF i = nextId
                            THEN [doc EXCEPT !.is_read = TRUE, !.read_at = At(now)]
                            ELSE notifications[i]]
                  /\ nextId' = nextId + 1
                  /\ res' = Outcome("createNotification", "ok", "")

\* Notification.createNotification
createNotification(userId, notificationTypeKey, title, type, triggeredBy, entityId, entityType) ==
    IF castKey(notificationTypeKey) \notin DOMAIN notification_types
    THEN /\ res' = Outcome("createNotification", "error", "not found")
         /\ UNCHANGED <<notifications, nextId>>
    ELSE LET doc == NewNotification(userId, notification_types[castKey(notificationTypeKey)].key,
                                    title, type, triggeredBy, entityId, entityType)
             errs == ValidateNotification(doc)
         IN  IF errs # {}
             THEN /\ res' = Outcome("createNotification", "error", "validation")
                  /\ UNCHANGED <<notifications, nextId>>
             ELSE /\ nextId <= MaxNotifs
                  /\ notifications' =
                        [i \in DOMAIN notifications \cup {nextId} |->
                            IF i = nextId THEN PreSaveNotification(doc, FALSE)
                            ELSE notifications[i]]
                  /\ nextId' = nextId + 1
                  /\ res' = Outcome("createNotification", "ok", "")

(***************************************************************************)
(* Documents loaded by callers.  A loaded document holds the _id and the   *)
(* read-state fields as the caller last loaded or saved them; save()       *)
(* writes the paths that differ from them and no others.                   *)
(***************************************************************************)
Procs == {"p1", "p2"}

NoDoc == [id |-> 0, is_read |-> FALSE, read_at |-> NoDate]

\* no caller is inside createNotification
NoCall == [active |-> FALSE]

CallsIdle == [p \in Procs |-> NoCall]

(***************************************************************************)
(* createNotification as callers run it side by side: the call awaits      *)
(* NotificationType.findOne, and later issues this.create.  A call keeps    *)
(* its arguments, the type it found and, once it has settled, its outcome.  *)
(***************************************************************************)
\* the call is entered and findOne({ key }) resolves; no type rejects the call
createNotificationLookup(p, userId, notificationTypeKey, title, type, triggeredBy, entityId, entityType) ==
    LET found == castKey(notificationTypeKey) \in DOMAIN notification_types
        args == [userId |-> userId, notificationTypeKey |-> notificationTypeKey,
                 title |-> title, type |-> type, triggeredBy |-> triggeredBy,
                 entityId |-> entityId, entityType |-> entityType]
    IN  /\ calls[p] = NoCall
        /\ calls' = [calls EXCEPT ![p] =
                [active |-> TRUE,
                 args |-> args,
                 settled |-> ~found,
                 typeId |-> IF found
                            THEN notification_types[castKey(notificationTypeKey)].key
                            ELSE "",
                 result |-> IF found THEN Outcome("createNotification", "none", "")
                            ELSE Outcome("createNotification", "error", "not found")]]
        /\ UNCHANGED <<notifications, nextId>>

\* the document the call of p passes to this.create
CallDoc(p) ==
    NewNotification(calls[p].args.userId, calls[p].typeId, calls[p].args.title,
                    calls[p].args.type, calls[p].args.triggeredBy,
                    calls[p].args.entityId, calls[p].args.entityType)

\* mutant: this.create inserts without validating
createNotificationPersist_NoValidation(p) ==
    /\ calls[p].active
    /\ ~calls[p].settled
    /\ nextId <= MaxNotifs
    /\ notifications' =
            [i \in DOMAIN notifications \cup {nextId} |->
                IF i = nextId THEN PreSaveNotification(CallDoc(p), FALSE)
                ELSE notifications[i]]
    /\ nextId' = nextId + 1
    /\ calls' = [calls EXCEPT ![p].settled = TRUE,
                              ![p].result = Outcome("createNotification", "ok", "")]

\* this.create({...}) of the call of p: validation, pre('save'), one insert
createNotificationPersist(p) ==
    /\ calls[p].active
    /\ ~calls[p].settled
    /\ IF ValidateNotification(CallDoc(p)) # {}
       THEN /\ calls' = [calls EXCEPT
                            ![p].settled = TRUE,
                            ![p].result = Outcome("createNotification", "error", "validation")]
            /\ UNCHANGED <<notifications, nextId>>
       ELSE /\ nextId <= MaxNotifs
            /\ notifications' =
                    [i \in DOMAIN notifications \cup {nextId} |->
                        IF i = nextId THEN PreSaveNotification(CallDoc(p), FALSE)
                        ELSE notifications[i]]
            /\ nextId' = nextId + 1
            /\ calls' = [calls EXCEPT ![p].settled = TRUE,
                                      ![p].result = Outcome("createNotification", "ok", "")]

\* a caller loads notification id (Notification.findById)
Load(p, id) ==
    /\ docs[p] = NoDoc
    /\ id \in DOMAIN notifications
    /\ docs' = [docs EXCEPT ![p] = [id |-> id,
                                    is_read |-> notifications[id].is_read,
                                    read_at |-> notifications[id].read_at]]
    /\ res' = Outcome("findById", "ok", "")
    /\ UNCHANGED <<notifications, nextId>>

\* the caller drops its document
Release(p) ==
    /\ docs[p] # NoDoc
    /\ docs' = [docs EXCEPT ![p] = NoDoc]
    /\ UNCHANGED <<notifications, nextId, res>>

\* this.save() of p's loaded document after its fields were set to is_read and
\* read_at: validation, pre('save'), then one update of the modified paths
Save(p, op, is_read, read_at) ==
    LET old == docs[p]
        set == [old EXCEPT !.is_read = is_read, !.read_at = read_at]
        valid == (set.read_at = old.read_at) \/ ReadAtValid(set.is_read, set.read_at)
        new == PreSaveNotification(set, set.is_read # old.is_read)
        modIsRead == new.is_read # old.is_read
        modReadAt == new.read_at # old.read_at
    IN  IF ~valid
        THEN /\ res' = Outcome(op, "error", "validation")
             /\ UNCHANGED <<notifications, docs>>
        ELSE IF ~modIsRead /\ ~modReadAt
        THEN /\ res' = Outcome(op, "ok", "")
             /\ UNCHANGED <<notifications, docs>>
        ELSE IF old.id \notin DOMAIN notifications
        THEN /\ res' = Outcome(op, "error", "document not found")
             /\ UNCHANGED <<notifications, docs>>
        ELSE /\ notifications' =
                    [notifications EXCEPT
                        ![old.id].is_read = IF modIsRead THEN new.is_read ELSE @,
                        ![old.id].read_at = IF modReadAt THEN new.read_at ELSE @]
             /\ docs' = [docs EXCEPT ![p] = new]
             /\ res' = Outcome(op, "ok", "")

\* mutant: read_at is left to the pre('save') hook
markAsRead_HookOnly(p) ==
    /\ docs[p] # NoDoc
    /\ Save(p, "markAsRead", TRUE, docs[p].read_at)
    /\ UNCHANGED nextId

\* notification.markAsRead()
markAsRead(p) ==
    /\ docs[p] # NoDoc
    /\ Save(p, "markAsRead", TRUE, At(now))
    /\ UNCHANGED nextId

\* notification.markAsUnread()
markAsUnread(p) ==
    /\ docs[p] # NoDoc
    /\ Save(p, "markAsUnread", FALSE, NoDate)
    /\ UNCHANGED nextId

\* Notification.getUnreadCount(userId): countDocuments({ user_id, is_read: false })
getUnreadCount(userId) ==
    Cardinality({i \in DOMAIN notifications :
                    notifications[i].user_id = userId /\ ~notifications[i].is_read})

\* mutant: the update also sets created_at
markAllAsRead_SetsCreatedAt(userId) ==
    /\ notifications' =
            [i \in DOMAIN notifications |->
                IF notifications[i].user_id = userId /\ ~notifications[i].is_read
                THEN [notifications[i] EXCEPT !.is_read = TRUE, !.read_at = At(now),
                                              !.created_at = now]
                ELSE notifications[i]]
    /\ res' = Outcome("markAllAsRead", "ok", "")
    /\ UNCHANGED <<nextId, docs>>

\* mutant: the update stamps every notification of the user, read ones included
markAllAsRead_StampsAll(userId) ==
    /\ notifications' =
            [i \in DOMAIN notifications |->
                IF notifications[i].user_id = userId
                THEN [notifications[i] EXCEPT !.is_read = TRUE, !.read_at = At(now)]
                ELSE notifications[i]]
    /\ res' = Outcome("markAllAsRead", "ok", "")
    /\ UNCHANGED <<nextId, docs>>

\* Notification.markAllAsRead(userId): updateMany, no hooks
markAllAsRead(userId) ==
    /\ notifications' =
            [i \in DOMAIN notifications |->
                IF notifications[i].user_id = userId /\ ~notifications[i].is_read
                THEN [notifications[i] EXCEPT !.is_read = TRUE, !.read_at = At(now)]
                ELSE notifications[i]]
    /\ res' = Outcome("markAllAsRead", "ok", "")
    /\ UNCHANGED <<nextId, docs>>

(***************************************************************************)
(* markAllAsRead as the store executes it: updateMany is atomic per         *)
(* document, not as a whole.  The call evaluates new Date() once, then the  *)
(* store visits the documents one at a time, every document present when    *)
(* the call started and possibly documents inserted since, and updates      *)
(* those matching { user_id, is_read: false } as it reaches them.           *)
(***************************************************************************)
BulkIdle == [active |-> FALSE, user |-> "", at |-> 0, before |-> {}, todo |-> {}]

\* the call starts: the update { is_read: true, read_at: new Date() } is built
markAllAsReadBegin(userId) ==
    /\ ~bulk.active
    /\ bulk' = [active |-> TRUE, user |-> userId, at |-> now,
                before |-> DOMAIN notifications, todo |-> DOMAIN notifications]
    /\ UNCHANGED <<notifications, nextId, docs, res>>

\* mutant: the filter of the update is { is_read: false }, whoever the recipient
markAllAsReadVisit_AnyUser(i) ==
    /\ bulk.active
    /\ IF i \in DOMAIN notifications /\ ~notifications[i].is_read
       THEN notifications' =
                [notifications EXCEPT ![i].is_read = TRUE, ![i].read_at = At(bulk.at)]
       ELSE i \in bulk.todo /\ UNCHANGED notifications
    /\ bulk' = [bulk EXCEPT !.todo = @ \ {i}]
    /\ UNCHANGED <<nextId, docs, res>>

\* the store reaches document i
markAllAsReadVisit(i) ==
    /\ bulk.active
    /\ IF i \in DOMAIN notifications
          /\ notifications[i].user_id = bulk.user /\ ~notifications[i].is_read
       THEN notifications' =
                [notifications EXCEPT ![i].is_read = TRUE, ![i].read_at = At(bulk.at)]
       ELSE i \in bulk.todo /\ UNCHANGED notifications
    /\ bulk' = [bulk EXCEPT !.todo = @ \ {i}]
    /\ UNCHANGED <<nextId, docs, res>>

\* mutant: the call completes whatever is left to visit
markAllAsReadEnd_Early ==
    /\ bulk.active
    /\ bulk' = BulkIdle
    /\ res' = Outcome("markAllAsRead", "ok", "")
    /\ UNCHANGED <<notifications, nextId, docs>>

\* the call completes once every document present at its start was visited
markAllAsReadEnd ==
    /\ bulk.active
    /\ bulk.todo = {}
    /\ bulk' = BulkIdle
    /\ res' = Outcome("markAllAsRead", "ok", "")
    /\ UNCHANGED <<notifications, nextId, docs>>

\* mutant: the filter is on the age of the notification, read or not
CleanupMatches_ByAge(days) ==
    {i \in DOMAIN notifications : notifications[i].created_at < now - days}

\* mutant: the filter is read_at <= cutoffDate
CleanupMatches_Inclusive(days) ==
    {i \in DOMAIN notifications :
        /\ notifications[i].is_read
        /\ notifications[i].read_at # NoDate
        /\ notifications[i].read_at[1] <= now - days}

\* the documents deleteMany({ is_read: true, read_at: { $lt: cutoffDate } }) matches
CleanupMatches(days) ==
    {i \in DOMAIN notifications :
        /\ notifications[i].is_read
        /\ notifications[i].read_at # NoDate
        /\ notifications[i].read_at[1] < now - days}

\* Notification.cleanupOldNotifications(days)
cleanupOldNotifications(days) ==
    /\ notifications' = [i \in DOMAIN notifications \ CleanupMatches(days) |-> notifications[i]]
    /\ res' = Outcome("cleanupOldNotifications", "ok", "")
    /\ UNCHANGED <<nextId, docs>>

\* the documents the TTL index on read_at (partial: is_read true) lets the store expire
TTLExpired ==
    {i \in DOMAIN notifications :
        /\ notifications[i].is_read
        /\ notifications[i].read_at # NoDate
        /\ notifications[i].read_at[1] + ReadTTLDays <= now}

\* the store's TTL monitor removes one expired document
TTLDelete(id) ==
    /\ id \in TTLExpired
    /\ notifications' = [i \in DOMAIN notifications \ {id} |-> notifications[i]]
    /\ UNCHANGED <<nextId, docs, res>>

(***************************************************************************)
(* User controller.  A user document holds email, name, role, is_active;   *)
(* a missing request field is "".  Each handler ends in one HTTP response. *)
(***************************************************************************)
UserRoles == {"admin", "sales", "support", "tech", "manager"}

Response(op, code, success, id) == [op |-> op, code |-> code, success |-> success, id |-> id]

\* the paths of the ValidationError of a new user
ValidateUser(doc) ==
    {p \in {"email"} : doc.email = ""}
    \cup {p \in {"role"} : doc.role \notin UserRoles}
    \cup {p \in {"name"} : doc.name = ""}

\* createUser
createUser(email, name, role) ==
    IF \E i \in DOMAIN users : users[i].email = email
    THEN /\ httpRes' = Response("createUser", 400, FALSE, 0)
         /\ UNCHANGED users
    ELSE LET doc == [email |-> email, name |-> name, role |-> role, is_active |-> TRUE]
             id == Cardinality(DOMAIN users) + 1
         IN  IF ValidateUser(doc) # {}
             THEN /\ httpRes' = Response("createUser", 400, FALSE, 0)
                  /\ UNCHANGED users
             ELSE /\ id <= MaxUsers
                  /\ users' = [i \in DOMAIN users \cup {id} |->
                                    IF i = id THEN doc ELSE users[i]]
                  /\ httpRes' = Response("createUser", 201, TRUE, id)

\* updateUser: findByIdAndUpdate(id, { name, ... }, { new: true, runValidators: true });
\* an undefined field is left out of the update
updateUser(id, name) ==
    IF id \notin DOMAIN users
    THEN /\ httpRes' = Response("updateUser", 404, FALSE, id)
         /\ UNCHANGED users
    ELSE /\ users' = [users EXCEPT ![id].name = IF name = "" THEN @ ELSE name]
         /\ httpRes' = Response("updateUser", 200, TRUE, id)

\* deleteUser: findByIdAndUpdate(id, { is_active: false })
deleteUser(id) ==
    IF id \notin DOMAIN users
    THEN /\ httpRes' = Response("deleteUser", 404, FALSE, id)
         /\ UNCHANGED users
    ELSE /\ users' = [users EXCEPT ![id].is_active = FALSE]
         /\ httpRes' = Response("deleteUser", 200, TRUE, id)

\* activateUser: findByIdAndUpdate(id, { is_active: true })
activateUser(id) ==
    IF id \notin DOMAIN users
    THEN /\ httpRes' = Response("activateUser", 404, FALSE, id)
         /\ UNCHANGED users
    ELSE /\ users' = [users EXCEPT ![id].is_active = TRUE]
         /\ httpRes' = Response("activateUser", 200, TRUE, id)

(***************************************************************************)
(* Access tokens, login and the authenticate middleware.  A token is the   *)
(* payload jwt.sign signed: the user's _id and the day it expires.  The    *)
(* tokens signed with the secret are those in tokens; any other token      *)
(* fails jwt.verify, as does a token that has expired.                     *)
(***************************************************************************)
\* expiresIn: process.env.JWT_EXPIRE || '24h', in days
AccessTokenDays == 1

\* a request without an Authorization header
NoToken == [userId |-> 0, exp |-> 0]

AuthNone == [token |-> NoToken, code |-> 0, next |-> FALSE]

\* generateAccessToken(userId, role)
generateAccessToken(userId) == [userId |-> userId, exp |-> now + AccessTokenDays]

\* verifyAccessToken(token) returns the payload instead of throwing
verifyAccessToken(token) == token \in tokens /\ now < token.exp

\* login; passwordMatches is the outcome of comparePassword
login(email, passwordMatches) ==
    LET found == {i \in DOMAIN users : users[i].email = email /\ users[i].is_active}
    IN  IF found = {}
        THEN /\ httpRes' = Response("login", 401, FALSE, 0)
             /\ UNCHANGED <<users, tokens>>
        ELSE LET id == CHOOSE i \in found : TRUE
             IN  IF ~passwordMatches
                 THEN /\ httpRes' = Response("login", 401, FALSE, 0)
                      /\ UNCHANGED <<users, tokens>>
                 ELSE /\ tokens' = tokens \cup {generateAccessToken(id)}
                      /\ httpRes' = Response("login", 200, TRUE, id)
                      /\ UNCHANGED users

\* mutant: the user is looked up and need not be active
authenticate_AnyUser(token) ==
    /\ authRes' =
            IF token = NoToken THEN [token |-> token, code |-> 401, next |-> FALSE]
            ELSE IF ~verifyAccessToken(token)
            THEN [token |-> token, code |-> 401, next |-> FALSE]
            ELSE IF token.userId \notin DOMAIN users
            THEN [token |-> token, code |-> 401, next |-> FALSE]
            ELSE [token |-> token, code |-> 0, next |-> TRUE]
    /\ UNCHANGED <<users, httpRes, tokens>>

\* authenticate: 401 without a token, on a token that does not verify, and when
\* the user is missing or inactive; otherwise next() is called
authenticate(token) ==
    /\ authRes' =
            IF token = NoToken THEN [token |-> token, code |-> 401, next |-> FALSE]
            ELSE IF ~verifyAccessToken(token)
            THEN [token |-> token, code |-> 401, next |-> FALSE]
            ELSE IF token.userId \notin DOMAIN users \/ ~users[token.userId].is_active
            THEN [token |-> token, code |-> 401, next |-> FALSE]
            ELSE [token |-> token, code |-> 0, next |-> TRUE]
    /\ UNCHANGED <<users, httpRes, tokens>>

(***************************************************************************)
(* The server process.                                                     *)
(***************************************************************************)
BootOff == [step |-> "off", logged |-> {}]

\* startServer is called
startServer ==
    /\ boot.step = "off"
    /\ boot' = [step |-> "starting", logged |-> {}]

\* an awaited step of connectDatabase rejects: connectDatabase logs and rethrows,
\* startServer logs and calls process.exit(1)
StartupFailed(logged) ==
    [step |-> "exited",
     logged |-> logged \cup {"Database connection failed", "Failed to start server"}]

\* await mongoose.connect(uri, options)
connect(ok) ==
    /\ boot.step = "starting"
    /\ boot' = IF ok THEN [boot EXCEPT !.step = "connected"] ELSE StartupFailed(boot.logged)

\* await initializeModels()
initializeModels(ok) ==
    /\ boot.step = "connected"
    /\ boot' = IF ok THEN [boot EXCEPT !.step = "initialized"]
               ELSE StartupFailed(boot.logged \cup {"Error initializing models"})

\* await validateModels(), then setupEventListeners()
validateModels(ok) ==
    /\ boot.step = "initialized"
    /\ boot' = IF ok THEN [boot EXCEPT !.step = "validated"]
               ELSE StartupFailed(boot.logged \cup {"model validation failed"})

\* await createIndexes()
createIndexes(ok) ==
    /\ boot.step = "validated"
    /\ boot' = IF ok THEN [boot EXCEPT !.step = "indexed"]
               ELSE StartupFailed(boot.logged \cup {"Error creating indexes"})

\* seedDefaultData calls NotificationType.seedDefaultTypes()
seedDefaultDataBegin(s) ==
    /\ boot.step = "indexed"
    /\ boot' = [boot EXCEPT !.step = "seeding"]
    /\ seedBegin(s)

\* a findOneAndUpdate of the seeding rejects, the store being unreachable
seedAbort(s) ==
    /\ seeding[s].at > 0
    /\ seeding' = [seeding EXCEPT ![s] = [NotSeeding EXCEPT !.failed = TRUE]]
    /\ UNCHANGED notification_types

\* mutant: seedDefaultData rethrows what seedDefaultTypes rejected with
seedDefaultDataEnd_Rethrows(s) ==
    /\ boot.step = "seeding"
    /\ seeding[s].at = 0
    /\ boot' = IF seeding[s].failed
               THEN StartupFailed(boot.logged \cup {"Error seeding default data"})
               ELSE [boot EXCEPT !.step = "seeded"]
    /\ UNCHANGED <<seeding, notification_types>>

\* seedDefaultTypes has settled: seedDefaultData logs a rejection and returns
seedDefaultDataEnd(s) ==
    /\ boot.step = "seeding"
    /\ seeding[s].at = 0
    /\ boot' = [step |-> "seeded",
                logged |-> IF seeding[s].failed
                           THEN boot.logged \cup {"Error seeding default data"}
                           ELSE boot.logged]
    /\ UNCHANGED <<seeding, notification_types>>

\* app.listen(PORT)
listen ==
    /\ boot.step = "seeded"
    /\ boot' = [boot EXCEPT !.step = "listening"]

\* SIGINT once setupEventListeners has run: the connection is closed, process.exit(0)
sigint ==
    /\ boot.step \in {"validated", "indexed", "seeding", "seeded", "listening"}
    /\ boot' = [step |-> "exited",
                logged |-> boot.logged \cup {"MongoDB connection closed through app termination"}]
    /\ seeding' = SeedIdle
    /\ UNCHANGED notification_types

\* the process is started again
restart ==
    /\ boot.step = "exited"
    /\ boot' = BootOff

(***************************************************************************)
(* The database setup script (src/unnamed/part_006) run with --drop.       *)
(***************************************************************************)
\* dropExistingCollections: dropCollection on every collection of the list
dropExistingCollections ==
    /\ users' = [i \in {} |-> ""]
    /\ notifications' = [i \in {} |-> ""]
    /\ notification_types' = [k \in {} |-> ""]
    /\ activity_logs' = <<>>
    /\ UNCHANGED <<nextLogId, logRes, nextId, now, docs, res, bulk, flightVars, httpRes, hostVars>>

(***************************************************************************)
(* Idle values of each group of variables.                                 *)
(***************************************************************************)
PendingData == [kind |-> "pending", str |-> "", fields |-> EmptyFields]

AuditIdle ==
    /\ activity_logs = <<>>
    /\ nextLogId = 1
    /\ logRes = [call |-> [entity_type |-> "", action |-> ""], status |-> "none", errors |-> {}]

SanIdle ==
    /\ sanArg = NullData
    /\ sanObj = NullData
    /\ sanRet = PendingData

NotifIdle ==
    /\ notification_types = [k \in {} |-> ""]
    /\ notifications = [i \in {} |-> ""]
    /\ nextId = 1
    /\ now = 0
    /\ docs = [p \in Procs |-> NoDoc]
    /\ res = Outcome("none", "none", "")
    /\ bulk = BulkIdle
    /\ seeding = SeedIdle
    /\ calls = CallsIdle

PendingRender == [done |-> FALSE, threw |-> FALSE, text |-> <<>>]

RenderIdle ==
    /\ tplArg = <<>>
    /\ varsArg = <<>>
    /\ rendered = PendingRender

UserIdle ==
    /\ users = [i \in {} |-> ""]
    /\ httpRes = Response("none", 0, FALSE, 0)
    /\ tokens = {}
    /\ authRes = AuthNone
    /\ boot = BootOff

(***************************************************************************)
(* Specification SpecSanitize: sanitizeData applied to one argument.       *)
(***************************************************************************)
SanKeys == {"password", "cvv", "name"}

SanValues == {"", "p1", "Bob"}

SanInputs == {NullData, StrData(""), StrData("raw")} \cup Objects(SanKeys, SanValues)

ApplySanitize ==
    /\ sanRet = PendingData
    /\ LET r == sanitizeData(sanArg)
       IN  /\ sanRet' = r.ret
           /\ sanObj' = r.arg
    /\ UNCHANGED <<sanArg, auditVars, notifVars, renderVars, userVars>>

SanInit ==
    /\ sanArg \in SanInputs
    /\ sanObj = sanArg
    /\ sanRet = PendingData
    /\ AuditIdle /\ NotifIdle /\ RenderIdle /\ UserIdle

SpecSanitize == SanInit /\ [][ApplySanitize]_vars

(***************************************************************************)
(* Specification SpecAudit: any sequence of ActivityLog.createLog calls.   *)
(***************************************************************************)
ActorArgs == {"A", ""}

EntityTypeArgs == {"users", "invoices"}

ActionArgs == {"update", "purge"}

LogData ==
    {NullData,
     ObjData([password |-> "p1", name |-> "Bob"]),
     ObjData([password |-> "", name |-> "Bob"])}

CreateLog ==
    /\ \E cb \in ActorArgs, et \in EntityTypeArgs, a \in ActionArgs,
          od \in LogData, nd \in LogData, up \in BOOLEAN :
            createLog(cb, "U", et, a, od, nd, up)
    /\ UNCHANGED <<sanVars, notifVars, renderVars, userVars>>

AuditInit == AuditIdle /\ SanIdle /\ NotifIdle /\ RenderIdle /\ UserIdle

SpecAudit == AuditInit /\ [][CreateLog]_vars

(***************************************************************************)
(* Specification SpecRetention: audit records are written, time passes in  *)
(* steps of a year, and the store's TTL monitor expires records.           *)
(* LiveRetention adds the one fairness assumption that the TTL monitor     *)
(* keeps running.  SpecAuditLife adds the other operations that write to   *)
(* the database: requests to the user controller and the setup script's    *)
(* drop of the collections.                                                *)
(***************************************************************************)
MaxAuditDays == 1095

AuditTickSteps == {365}

AuditTimes == {t \in 0..MaxAuditDays : \E d \in AuditTickSteps : t % d = 0}

RecordData == {NullData, ObjData([name |-> "Bob"])}

RecordOne ==
    /\ \E a \in ActionArgs, nd \in RecordData :
            createLog("A", "U", "users", a, NullData, nd, TRUE)
    /\ UNCHANGED now
    /\ UNCHANGED <<sanVars, notification_types, notifications, nextId, docs, res, bulk, flightVars,
                   renderVars, userVars>>

AuditTick ==
    /\ \E d \in AuditTickSteps : now + d <= MaxAuditDays /\ now' = now + d
    /\ UNCHANGED <<notification_types, notifications, nextId, docs, res, bulk, flightVars>>
    /\ UNCHANGED <<auditVars, sanVars, renderVars, userVars>>

AuditExpire ==
    /\ \E i \in 1..MaxLogs : AuditTTLDelete(i)
    /\ UNCHANGED <<sanVars, notifVars, renderVars, userVars>>

DropExisting ==
    /\ dropExistingCollections
    /\ UNCHANGED <<sanVars, renderVars>>

RetentionNext == RecordOne \/ AuditTick \/ AuditExpire

SpecRetention == AuditInit /\ [][RetentionNext]_vars

LiveRetention == SpecRetention /\ WF_vars(AuditExpire)

(***************************************************************************)
(* Specification SpecRender: renderTemplate applied to one template and    *)
(* one variables object.                                                   *)
(***************************************************************************)
SeqsUpTo(S, n) == UNION {[1..k -> S] : k \in 0..n}

TplTokens == {Lit("Hi "), Ph("a"), Ph("b")}

Templates == SeqsUpTo(TplTokens, MaxTplLen)

RenderKeys == {"a", "b", "("}

\* values: the empty string, "x", and the text "{{b}}"
RenderValues == {<<>>, <<Lit("x")>>, <<Ph("b")>>}

\* objects with at most MaxVars own keys, as their entries in insertion order
VarObjects ==
    {v \in SeqsUpTo(RenderKeys \X RenderValues, MaxVars) :
        \A i, j \in 1..Len(v) : i # j => v[i][1] # v[j][1]}

ApplyRender ==
    /\ ~rendered.done
    /\ LET r == renderTemplate(tplArg, varsArg)
       IN  rendered' = [done |-> TRUE, threw |-> r.threw, text |-> r.text]
    /\ UNCHANGED <<tplArg, varsArg, auditVars, sanVars, notifVars, userVars>>

RenderInit ==
    /\ tplArg \in Templates
    /\ varsArg \in VarObjects
    /\ rendered = PendingRender
    /\ AuditIdle /\ SanIdle /\ NotifIdle /\ UserIdle

SpecRender == RenderInit /\ [][ApplyRender]_vars

(***************************************************************************)
(* Specification SpecDispatch: seeding of the default types and calls of   *)
(* createNotification with any arguments.                                  *)
(***************************************************************************)
\* a title of 201 characters
LongTitle ==
    <<Lit("xxxxxxxxxxxxxxxxxxxxxxxxxxxxxxxxxxxxxxxxxxxxxxxxxxxxxxxxxxxxxxxxxxxxxxxxxxxxxxxxxxxxxxxxxxxxxxxxxxxxxxxxxxxxxxxxxxxxxxxxxxxxxxxxxxxxxxxxxxxxxxxxxxxxxxxxxxxxxxxxxxxxxxxxxxxxxxxxxxxxxxxxxxxxxxxxxxxxxxxxx")>>

\* the scenario's task_assigned sentence, as a caller would pass it
TaskAssignedTitle ==
    <<Lit("You have been assigned a new task: \""), Lit("Fix bug"),
      Lit("\" in project \""), Lit("Alpha"), Lit("\".")>>

TitleArgs ==
    {<<>>, <<Lit(" ")>>, <<Lit(" "), Lit("Hi"), Lit(" ")>>, TaskAssignedTitle,
     LongTitle}

KeyArgs == {"task_assigned", "no_such_type"}

UserArgs == {"U1", ""}

TypeArgs == {"", "success", "urgent"}

NotifEntityArgs == {"", "tasks", " tasks ", "invoices"}

\* mutant: seeding rewrites the titles of the stored notifications from the
\* templates of their types
SeedDefaultTypes_Retitles ==
    /\ seedDefaultTypes
    /\ res' = Outcome("seedDefaultTypes", "ok", "")
    /\ notifications' =
            [i \in DOMAIN notifications |->
                [notifications[i] EXCEPT
                    !.title = DefaultTypes[notifications[i].notification_type_id]]]
    /\ UNCHANGED <<nextId, now, docs, bulk, flightVars>>
    /\ UNCHANGED <<auditVars, sanVars, renderVars, userVars>>

SeedDefaultTypes ==
    /\ seedDefaultTypes
    /\ res' = Outcome("seedDefaultTypes", "ok", "")
    /\ UNCHANGED <<notifications, nextId, now, docs, bulk, flightVars>>
    /\ UNCHANGED <<auditVars, sanVars, renderVars, userVars>>

Dispatch ==
    /\ \E u \in UserArgs, k \in KeyArgs, t \in TitleArgs, ty \in TypeArgs, et \in NotifEntityArgs :
            createNotification(u, k, t, ty, "", "", et)
    /\ UNCHANGED <<notification_types, now, docs, bulk, flightVars>>
    /\ UNCHANGED <<auditVars, sanVars, renderVars, userVars>>

DispatchInit == AuditIdle /\ SanIdle /\ NotifIdle /\ RenderIdle /\ UserIdle

DispatchNext == SeedDefaultTypes \/ Dispatch

SpecDispatch == DispatchInit /\ [][DispatchNext]_vars

(***************************************************************************)
(* Specification SpecNotif: the read-state tracker.  Callers load, mark    *)
(* and save documents concurrently while notifications are dispatched,     *)
(* bulk-marked, cleaned up and expired, and time passes.                   *)
(***************************************************************************)
TickSteps == {90}

CleanupDays == {30, 90}

Tick ==
    /\ \E d \in TickSteps : now + d <= MaxTime /\ now' = now + d
    /\ UNCHANGED <<notification_types, notifications, nextId, docs, res, bulk, flightVars>>
    /\ UNCHANGED <<auditVars, sanVars, renderVars, userVars>>

DispatchOne ==
    /\ \E k \in {"task_assigned", "no_such_type"} :
            createNotification("U1", k, <<Lit("Hi")>>, "info", "", "", "")
    /\ UNCHANGED <<notification_types, now, docs, bulk, flightVars>>
    /\ UNCHANGED <<auditVars, sanVars, renderVars, userVars>>

FindById ==
    /\ \E p \in Procs, id \in 1..MaxNotifs : Load(p, id)
    /\ UNCHANGED <<notification_types, now, bulk, flightVars>>
    /\ UNCHANGED <<auditVars, sanVars, renderVars, userVars>>

Drop ==
    /\ \E p \in Procs : Release(p)
    /\ UNCHANGED <<notification_types, now, bulk, flightVars>>
    /\ UNCHANGED <<auditVars, sanVars, renderVars, userVars>>

MarkAsRead ==
    /\ \E p \in Procs : markAsRead(p)
    /\ UNCHANGED <<notification_types, now, bulk, flightVars>>
    /\ UNCHANGED <<auditVars, sanVars, renderVars, userVars>>

MarkAsUnread ==
    /\ \E p \in Procs : markAsUnread(p)
    /\ UNCHANGED <<notification_types, now, bulk, flightVars>>
    /\ UNCHANGED <<auditVars, sanVars, renderVars, userVars>>

MarkAllAsRead ==
    /\ \E u \in {"U1", "U2"} : markAllAsRead(u)
    /\ UNCHANGED <<notification_types, now, bulk, flightVars>>
    /\ UNCHANGED <<auditVars, sanVars, renderVars, userVars>>

Cleanup ==
    /\ \E d \in CleanupDays : cleanupOldNotifications(d)
    /\ UNCHANGED <<notification_types, now, bulk, flightVars>>
    /\ UNCHANGED <<auditVars, sanVars, renderVars, userVars>>

TTLSweep ==
    /\ \E id \in 1..MaxNotifs : TTLDelete(id)
    /\ UNCHANGED <<notification_types, now, bulk, flightVars>>
    /\ UNCHANGED <<auditVars, sanVars, renderVars, userVars>>

\* the state once connectDatabase has seeded the default types
NotifInit ==
    /\ notification_types =
            [k \in DOMAIN DefaultTypes |->
                DefaultDoc(k, 0)]
    /\ notifications = [i \in {} |-> ""]
    /\ nextId = 1
    /\ now = 0
    /\ docs = [p \in Procs |-> NoDoc]
    /\ res = Outcome("none", "none", "")
    /\ bulk = BulkIdle
    /\ seeding = SeedIdle
    /\ calls = CallsIdle
    /\ AuditIdle /\ SanIdle /\ RenderIdle /\ UserIdle

NotifNext ==
    \/ DispatchOne \/ FindById \/ Drop \/ MarkAsRead \/ MarkAsUnread
    \/ MarkAllAsRead \/ Cleanup \/ TTLSweep \/ Tick

SpecNotif == NotifInit /\ [][NotifNext]_vars

(***************************************************************************)
(* Specification SpecTemplates: notification types are upserted and        *)
(* re-seeded while notifications are dispatched and time passes.           *)
(***************************************************************************)
TemplateArgs == {<<Lit("Task: "), Ph("task_title"), Lit(" ")>>, <<Lit("Hello")>>}

DescriptionArgs == {DefaultDescriptions["task_assigned"], "Sent to the assignee"}

UpsertType ==
    /\ \E d \in DescriptionArgs, t \in TemplateArgs : upsertType("task_assigned", d, t)
    /\ res' = Outcome("upsertType", "ok", "")
    /\ UNCHANGED <<notifications, nextId, now, docs, bulk, flightVars>>
    /\ UNCHANGED <<auditVars, sanVars, renderVars, userVars>>

DispatchKnown ==
    /\ \E t \in {<<Lit("Hi")>>, TaskAssignedTitle} :
            createNotification("U1", "task_assigned", t, "info", "", "", "")
    /\ UNCHANGED <<notification_types, now, docs, bulk, flightVars>>
    /\ UNCHANGED <<auditVars, sanVars, renderVars, userVars>>

TemplatesNext == UpsertType \/ SeedDefaultTypes \/ DispatchKnown \/ Tick

SpecTemplates == DispatchInit /\ [][TemplatesNext]_vars

(***************************************************************************)
(* Specification SpecMarkRead: callers load documents and call markAsRead  *)
(* concurrently, while notifications are dispatched and time passes.       *)
(***************************************************************************)
MarkReadNext == DispatchOne \/ FindById \/ Drop \/ MarkAsRead \/ Tick

SpecMarkRead == NotifInit /\ [][MarkReadNext]_vars

(***************************************************************************)
(* Specification SpecBulk: markAllAsRead calls executed by the store one   *)
(* document at a time while notifications are dispatched and time passes.  *)
(***************************************************************************)
BulkUsers == {"U1", "U2"}

DispatchTo ==
    /\ \E u \in BulkUsers :
            createNotification(u, "task_assigned", <<Lit("Hi")>>, "info", "", "", "")
    /\ UNCHANGED <<notification_types, now, docs, bulk, flightVars>>
    /\ UNCHANGED <<auditVars, sanVars, renderVars, userVars>>

BulkBegin ==
    /\ \E u \in BulkUsers : markAllAsReadBegin(u)
    /\ UNCHANGED <<notification_types, now, flightVars>>
    /\ UNCHANGED <<auditVars, sanVars, renderVars, userVars>>

BulkVisit ==
    /\ \E i \in 1..MaxNotifs : markAllAsReadVisit(i)
    /\ UNCHANGED <<notification_types, now, flightVars>>
    /\ UNCHANGED <<auditVars, sanVars, renderVars, userVars>>

BulkEnd ==
    /\ markAllAsReadEnd
    /\ UNCHANGED <<notification_types, now, flightVars>>
    /\ UNCHANGED <<auditVars, sanVars, renderVars, userVars>>

BulkNext == DispatchTo \/ BulkBegin \/ BulkVisit \/ BulkEnd \/ Tick

SpecBulk == NotifInit /\ [][BulkNext]_vars

(***************************************************************************)
(* Specification SpecUsers: requests to the user controller.               *)
(***************************************************************************)
EmailArgs == {"ann@x.io", "bob@x.io"}

NameArgs == {"", "Ann", "Bob"}

RoleArgs == {"admin", "guest"}

UserIdArgs == 1..(MaxUsers + 1)

CreateUser ==
    /\ \E e \in EmailArgs, n \in NameArgs, r \in RoleArgs : createUser(e, n, r)
    /\ UNCHANGED <<auditVars, sanVars, notifVars, renderVars, hostVars>>

UpdateUser ==
    /\ \E id \in UserIdArgs, n \in NameArgs : updateUser(id, n)
    /\ UNCHANGED <<auditVars, sanVars, notifVars, renderVars, hostVars>>

DeleteUser ==
    /\ \E id \in UserIdArgs : deleteUser(id)
    /\ UNCHANGED <<auditVars, sanVars, notifVars, renderVars, hostVars>>

ActivateUser ==
    /\ \E id \in UserIdArgs : activateUser(id)
    /\ UNCHANGED <<auditVars, sanVars, notifVars, renderVars, hostVars>>

UsersInit == AuditIdle /\ SanIdle /\ NotifIdle /\ RenderIdle /\ UserIdle

UsersNext == CreateUser \/ UpdateUser \/ DeleteUser \/ ActivateUser

SpecUsers == UsersInit /\ [][UsersNext]_vars

(***************************************************************************)
(* Specification SpecAuditLife: SpecRetention together with user requests  *)
(* and the setup script's drop of the collections.                         *)
(***************************************************************************)
CreateOneUser ==
    /\ \E e \in EmailArgs : createUser(e, "Ann", "admin")
    /\ UNCHANGED <<auditVars, sanVars, notifVars, renderVars, hostVars>>

AuditLifeNext ==
    \/ RecordOne \/ AuditTick \/ AuditExpire
    \/ CreateOneUser \/ DeleteUser \/ DropExisting

SpecAuditLife == AuditInit /\ [][AuditLifeNext]_vars

(***************************************************************************)
(* Claims about the Redaction Policy and the Audit Recorder.               *)
(***************************************************************************)
\* out is inp with every sensitive field masked and everything else as it was
RedactedAs(inp, out) ==
    IF inp.kind = "object"
    THEN /\ out.kind = "object"
         /\ DOMAIN out.fields = DOMAIN inp.fields
         /\ \A k \in DOMAIN inp.fields :
                out.fields[k] = IF k \in sensitiveFields THEN REDACTED ELSE inp.fields[k]
    ELSE out = inp

\* C1: every createLog call that persists a record stores old_data and new_data
\* with the redaction marker in every sensitive field the caller supplied,
\* whatever its value, and every other field unchanged.
C1_StoredStatesRedacted ==
    [][\A cb \in ActorArgs, et \in EntityTypeArgs, a \in ActionArgs,
          od \in LogData, nd \in LogData :
            (createLog(cb, "U", et, a, od, nd, TRUE) /\ logRes'.status = "ok")
            => LET rec == activity_logs'[Len(activity_logs')]
               IN  /\ RedactedAs(od, rec.old_data)
                   /\ RedactedAs(nd, rec.new_data)]_vars

\* C2: sanitizeData is a partial identity: sensitive keys present in the input
\* map to the marker, all other keys to the input's value, the key set is the
\* input's, the input object is not modified, a non-object is returned as is.
C2_RedactPartialIdentity ==
    sanRet # PendingData => (RedactedAs(sanArg, sanRet) /\ sanObj = sanArg)

\* C7: a createLog call whose entity type is outside the closed set fails with
\* a validation error on entity_type and leaves the stored records unchanged.
C7_InvalidEntityKindRejected ==
    [][logRes'.call.entity_type \notin AuditEntityTypes
       => /\ logRes'.status = "error"
          /\ "entity_type" \in logRes'.errors
          /\ activity_logs' = activity_logs]_vars

\* C7 witness: a call with entity type "invoices" has failed on a non-empty store
C7_Witness ==
    /\ logRes.call.entity_type = "invoices"
    /\ logRes.status = "error"
    /\ "entity_type" \in logRes.errors
    /\ Len(activity_logs) > 0

\* C8: a createLog call whose action is outside {create, update, delete, view}
\* fails with a validation error on action and leaves the stored records unchanged.
C8_InvalidActionRejected ==
    [][logRes'.call.action \notin AuditActions
       => /\ logRes'.status = "error"
          /\ "action" \in logRes'.errors
          /\ activity_logs' = activity_logs]_vars

\* C8 witness: a call with action "purge" and a valid entity type has failed on a
\* non-empty store
C8_Witness ==
    /\ logRes.call.action = "purge"
    /\ logRes.call.entity_type \in AuditEntityTypes
    /\ logRes.status = "error"
    /\ logRes.errors = {"action"}
    /\ Len(activity_logs) > 0

(***************************************************************************)
(* Claims about the Notification Template Registry.                        *)
(***************************************************************************)
HasKey(variables, name) == \E i \in 1..Len(variables) : variables[i][1] = name

ValueOf(variables, name) ==
    variables[CHOOSE i \in 1..Len(variables) : variables[i][1] = name][2]

\* every {{name}} replaced by values[name] when name is a key, by nothing otherwise
RECURSIVE Substituted(_, _)
Substituted(text, variables) ==
    IF text = <<>> THEN <<>>
    ELSE LET tok == Head(text)
         IN  (IF tok.t # "ph" THEN <<tok>>
              ELSE IF HasKey(variables, tok.s) THEN ValueOf(variables, tok.s)
              ELSE <<>>)
             \o Substituted(Tail(text), variables)

NoPlaceholder(text) == \A i \in 1..Len(text) : text[i].t # "ph"

\* C5: renderTemplate never fails, replaces each {{name}} by values[name] when
\* name is a key of values and by the empty string when it is not, and its
\* output holds no {{...}} marker.
C5_RenderSubstitutesAll ==
    rendered.done =>
        /\ ~rendered.threw
        /\ rendered.text = Substituted(tplArg, varsArg)
        /\ NoPlaceholder(rendered.text)

(***************************************************************************)
(* Claims about the Notification Dispatcher and the Read-State Tracker.    *)
(***************************************************************************)
\* C3: in every stored state, for every notification, is_read is true if and
\* only if read_at is set.
C3_ReadAtIffIsRead ==
    \A i \in DOMAIN notifications :
        notifications[i].is_read <=> (notifications[i].read_at # NoDate)

\* placeholder values for the task_assigned template
C4Texts == {<<>>, <<Lit("Fix bug")>>, <<Lit("Alpha")>>}

C4Values ==
    {<<<<"task_title", a>>, <<"project_name", b>>>> : a \in C4Texts, b \in C4Texts}

IsTrimOf(out, inp) ==
    \E i \in 1..(Len(inp) + 1), j \in 0..Len(inp) :
        /\ out = SubSeq(inp, i, j)
        /\ \A k \in 1..(i - 1) : IsBlank(inp[k])
        /\ \A k \in (j + 1)..Len(inp) : IsBlank(inp[k])
        /\ out # <<>> => (~IsBlank(out[1]) /\ ~IsBlank(out[Len(out)]))

C6_UnknownTemplateRejected ==
    [][\A k \in KeyArgs \ DOMAIN notification_types :
          \A u \in UserArgs, t \in TitleArgs, ty \in TypeArgs, et \in NotifEntityArgs :
                createNotification(u, k, t, ty, "", "", et)
                => /\ res' = Outcome("createNotification", "error", "not found")
                   /\ notifications' = notifications]_vars

\* C6 witness: a dispatch has failed with not-found while notifications are stored
C6_Witness ==
    /\ res = Outcome("createNotification", "error", "not found")
    /\ DOMAIN notification_types # {}
    /\ DOMAIN notifications # {}

\* C10: no step removes a notification that is unread, whatever its age.
C10_UnreadNeverExpired ==
    [][\A i \in DOMAIN notifications :
          ~notifications[i].is_read => i \in DOMAIN notifications']_vars

\* C10 witness: cleanup has just run and removed a notification, and an unread
\* notification older than the expiry age is still stored
C10_Witness ==
    /\ res.op = "cleanupOldNotifications"
    /\ Cardinality(DOMAIN notifications) < nextId - 1
    /\ \E i \in DOMAIN notifications :
        /\ ~notifications[i].is_read
        /\ now - notifications[i].created_at >= ReadTTLDays

\* C11: cleanupOldNotifications(d) deletes exactly the notifications that are
\* read with read_at older than now minus d days; every other notification,
\* read within the threshold or unread, is still stored and unchanged.
C11_CleanupDeletesExactlyOldRead ==
    [][\A d \in CleanupDays :
          cleanupOldNotifications(d)
          => /\ \A i \in DOMAIN notifications :
                    (i \notin DOMAIN notifications')
                    <=> /\ notifications[i].is_read
                        /\ notifications[i].read_at # NoDate
                        /\ now - notifications[i].read_at[1] > d
             /\ \A i \in DOMAIN notifications' :
                    /\ i \in DOMAIN notifications
                    /\ notifications'[i] = notifications[i]]_vars

\* C11 witness: cleanup has run; a notification is gone, a notification read
\* exactly at the threshold age or later is kept, and so is an unread one
C11_Witness ==
    /\ res = Outcome("cleanupOldNotifications", "ok", "")
    /\ Cardinality(DOMAIN notifications) < nextId - 1
    /\ \E i \in DOMAIN notifications :
        /\ notifications[i].is_read
        /\ notifications[i].read_at # NoDate
        /\ now - notifications[i].read_at[1] \in 0..90

\* C12: markAsRead is idempotent: when a caller whose markAsRead has just
\* succeeded calls markAsRead again on the same document, the call succeeds and
\* the stored notification (is_read and read_at) is as the first call left it.
C12_MarkReadIdempotent ==
    [][\A p \in Procs :
          (/\ res = Outcome("markAsRead", "ok", "")
           /\ docs[p] # NoDoc
           /\ docs[p].id \in DOMAIN notifications
           /\ docs[p].is_read
           /\ notifications[docs[p].id].is_read
           /\ notifications[docs[p].id].read_at = docs[p].read_at
           /\ markAsRead(p))
          => /\ res' = Outcome("markAsRead", "ok", "")
             /\ notifications' = notifications]_vars

\* C13: with any number of callers running markAsRead on the same notification
\* and any interleaving of their loads and saves, every completed call leaves
\* the stored notification read with read_at the time of that call, and no
\* other step makes a read notification unread or changes its read_at; so once
\* all calls have completed the notification is read.
C13_ConcurrentMarkReadConverges ==
    [][/\ \A p \in Procs :
            (/\ docs[p] # NoDoc
             /\ docs[p].id \in DOMAIN notifications
             /\ markAsRead(p))
            => /\ res' = Outcome("markAsRead", "ok", "")
               /\ notifications'[docs[p].id].is_read
               /\ notifications'[docs[p].id].read_at = At(now)
       /\ \A i \in DOMAIN notifications :
            notifications[i].is_read
            => /\ i \in DOMAIN notifications'
               /\ notifications'[i].is_read
               /\ notifications'[i].read_at \in {notifications[i].read_at, At(now)}
               /\ notifications'[i].read_at # NoDate]_vars

\* C13 witness: both callers hold the same notification and have saved it as
\* read at different times; the stored notification carries the later time
C13_Witness ==
    /\ res = Outcome("markAsRead", "ok", "")
    /\ docs["p1"].id = docs["p2"].id
    /\ docs["p1"].id \in DOMAIN notifications
    /\ docs["p1"].is_read /\ docs["p2"].is_read
    /\ docs["p1"].read_at # docs["p2"].read_at
    /\ notifications[docs["p1"].id].is_read
    /\ notifications[docs["p1"].id].read_at = At(now)
    /\ now > 0

\* C14: when a markAllAsRead(user) call completes, every notification of that
\* user that was stored when the call started is read, with read_at set,
\* whatever was dispatched to the user while the call was running.
C14_MarkAllReadsPreexisting ==
    [][markAllAsReadEnd
       => \A i \in bulk.before \cap DOMAIN notifications' :
            notifications'[i].user_id = bulk.user
            => /\ notifications'[i].is_read
               /\ notifications'[i].read_at # NoDate]_vars

\* C14 witness: a call for U1 has completed; a notification of U1 older than
\* the call is read, and one dispatched to U1 while the call ran is unread
C14_Witness ==
    /\ res = Outcome("markAllAsRead", "ok", "")
    /\ ~bulk.active
    /\ \E i, j \in DOMAIN notifications :
        /\ i < j
        /\ notifications[i].user_id = "U1" /\ notifications[j].user_id = "U1"
        /\ notifications[i].is_read /\ notifications[i].read_at = At(now)
        /\ notifications[j].created_at = now
        /\ ~notifications[j].is_read

\* C15: getUnreadCount(user) counts the stored notifications of the user that
\* are unread: it is 0 when a markAllAsRead(user) call completes during which
\* nothing was dispatched, and every successful dispatch to a user raises that
\* user's count by exactly 1 and leaves the other users' counts as they were.
C15_UnreadCountTracksDispatch ==
    [][/\ (markAllAsReadEnd /\ DOMAIN notifications \subseteq bulk.before)
            => getUnreadCount(bulk.user)' = 0
       /\ res' = Outcome("createNotification", "ok", "")
            => \A u \in BulkUsers :
                 createNotification(u, "task_assigned", <<Lit("Hi")>>, "info", "", "", "")
                 => /\ getUnreadCount(u)' = getUnreadCount(u) + 1
                    /\ \A v \in BulkUsers \ {u} :
                            getUnreadCount(v)' = getUnreadCount(v)]_vars

\* C15 witness: U1's notification was marked read by markAllAsRead, and the one
\* dispatched to U1 afterwards makes the count 1
C15_Witness ==
    /\ res = Outcome("createNotification", "ok", "")
    /\ ~bulk.active
    /\ getUnreadCount("U1") = 1
    /\ \E i \in DOMAIN notifications :
        /\ notifications[i].user_id = "U1"
        /\ notifications[i].is_read
        /\ notifications[i].read_at # NoDate

\* C16: when markAsUnread completes on a stored notification, the stored
\* notification has is_read false and no read_at, whatever was stored before.
C16_MarkUnreadClears ==
    [][\A p \in Procs :
          (/\ docs[p] # NoDoc
           /\ docs[p].id \in DOMAIN notifications
           /\ markAsUnread(p)
           /\ res' = Outcome("markAsUnread", "ok", ""))
          => /\ ~notifications'[docs[p].id].is_read
             /\ notifications'[docs[p].id].read_at = NoDate]_vars

\* C20: no upsert of a notification type and no seedDefaultTypes alters a
\* stored notification: every notification dispatched before the template
\* changed keeps its title and every other field.
C20_TemplateChangeKeepsTitles ==
    [][(notification_types' # notification_types)
       => \A i \in DOMAIN notifications :
            /\ i \in DOMAIN notifications'
            /\ notifications'[i].title = notifications[i].title
            /\ notifications'[i] = notifications[i]]_vars

\* C20 witness: a notification dispatched on day 0 is stored with its title
\* while its type's template was overwritten on day 90 and is not the default
C20_Witness ==
    /\ res.op \in {"upsertType", "seedDefaultTypes"}
    /\ "task_assigned" \in DOMAIN notification_types
    /\ notification_types["task_assigned"].updated_at = now
    /\ notification_types["task_assigned"].template # DefaultTypes["task_assigned"]
    /\ \E i \in DOMAIN notifications :
        /\ notifications[i].notification_type_id = "task_assigned"
        /\ notifications[i].created_at < now
        /\ notifications[i].title = TaskAssignedTitle

(***************************************************************************)
(* Claims about the domain mutations and the audit trail.                  *)
(***************************************************************************)
\* the audit action a user-controller mutation stands for
AuditActionOf(op) ==
    CASE op = "createUser" -> "create"
      [] op = "deleteUser" -> "delete"
      [] OTHER -> "update"

\* C9: whenever createUser, updateUser, deleteUser or activateUser has reported
\* success, an audit record for that user and action is stored.
C9_MutationHasAuditRecord ==
    httpRes.success =>
        \E i \in 1..Len(activity_logs) :
            /\ activity_logs[i].entity_type = "users"
            /\ activity_logs[i].entity_id = httpRes.id
            /\ activity_logs[i].action = AuditActionOf(httpRes.op)

(***************************************************************************)
(* Claims about the life of audit records.                                 *)
(***************************************************************************)
\* the stored audit record with this _id is gone after the step
GoneAfter(id) == \A j \in 1..Len(activity_logs') : activity_logs'[j]._id # id

\* the stored audit record is there, with every field as it was, after the step
KeptAfter(rec) == \E j \in 1..Len(activity_logs') : activity_logs'[j] = rec

\* C17 as stated: in every step, every stored audit record either stays with
\* every field as it was, or leaves the store having reached the retention age.
C17_AuditRecordsImmutable ==
    [][\A i \in 1..Len(activity_logs) :
          \/ KeptAfter(activity_logs[i])
          \/ /\ GoneAfter(activity_logs[i]._id)
             /\ now - activity_logs[i].created_at >= 730]_vars

\* C17 amended: in every step, every stored audit record either stays with
\* every field as it was, or leaves the store having reached the retention
\* age, or leaves it because the setup script drops the collections.
C17_ImmutableUntilExpiryOrDrop ==
    [][\A i \in 1..Len(activity_logs) :
          \/ KeptAfter(activity_logs[i])
          \/ /\ GoneAfter(activity_logs[i]._id)
             /\ now - activity_logs[i].created_at >= 730
          \/ dropExistingCollections]_vars

\* C17 witness: after user requests, the passing of two years and a removal,
\* the second audit record is stored as it was written and the first is gone
C17_Witness ==
    /\ DOMAIN users # {}
    /\ now >= 730
    /\ \E i \in 1..Len(activity_logs) :
        /\ activity_logs[i]._id = 2
        /\ activity_logs[i].new_data = ObjData([name |-> "Bob"])
    /\ \A i \in 1..Len(activity_logs) : activity_logs[i]._id # 1

\* C18: retention never removes an audit record early: an audit record
\* younger than the retention horizon of 730 days is still stored, as it was,
\* after every step of the expiry, the recorder and the clock.
C18_NeverRemovedEarly ==
    [][\A i \in 1..Len(activity_logs) :
          now - activity_logs[i].created_at < 730
          => KeptAfter(activity_logs[i])]_vars

\* C18 witness: the expiry has removed the first record, and a record younger
\* than the horizon, a year old, is still stored
C18_Witness ==
    /\ nextLogId > 2
    /\ \A i \in 1..Len(activity_logs) : activity_logs[i]._id # 1
    /\ \E i \in 1..Len(activity_logs) :
        /\ now - activity_logs[i].created_at = 365
        /\ now - activity_logs[i].created_at < 730

\* C19: under the sole assumption that the TTL monitor keeps running, every
\* audit record that has reached the retention age is eventually removed.
C19_ExpiredEventuallyRemoved ==
    \A t \in AuditTimes :
        (\E i \in 1..Len(activity_logs) :
            /\ activity_logs[i].created_at = t
            /\ now - t >= 730)
        ~> (\A i \in 1..Len(activity_logs) : activity_logs[i].created_at # t)

\* C19 witness: two years on, every record written has been removed by the expiry
C19_Witness ==
    /\ nextLogId > 2
    /\ now >= 730
    /\ activity_logs = <<>>

(***************************************************************************)
(* Specification SpecCatalog: two seeders run seedDefaultTypes step by     *)
(* step, side by side, while types are upserted and notifications are      *)
(* dispatched under keys spelled in mixed case.                            *)
(***************************************************************************)
SpelledKeys == {"TASK_ASSIGNED", "Task_Assigned", "Weekly_Digest"}

SeedBegin ==
    /\ \E s \in Seeders : seedBegin(s)
    /\ UNCHANGED <<notifications, nextId, now, docs, res, bulk, calls>>
    /\ UNCHANGED <<auditVars, sanVars, renderVars, userVars>>

SeedMatch ==
    /\ \E s \in Seeders : seedMatch(s)
    /\ UNCHANGED <<notifications, nextId, now, docs, res, bulk, calls>>
    /\ UNCHANGED <<auditVars, sanVars, renderVars, userVars>>

SeedInsert ==
    /\ \E s \in Seeders : seedInsert(s)
    /\ UNCHANGED <<notifications, nextId, now, docs, res, bulk, calls>>
    /\ UNCHANGED <<auditVars, sanVars, renderVars, userVars>>

UpsertSpelled ==
    /\ \E k \in SpelledKeys : upsertType(k, "Sent to the assignee", <<Lit("Hello")>>)
    /\ UNCHANGED <<notifications, nextId, now, docs, res, bulk, flightVars>>
    /\ UNCHANGED <<auditVars, sanVars, renderVars, userVars>>

DispatchSpelled ==
    /\ \E k \in SpelledKeys : createNotification("U1", k, <<Lit("Hi")>>, "info", "", "", "")
    /\ UNCHANGED <<notification_types, now, docs, bulk, flightVars>>
    /\ UNCHANGED <<auditVars, sanVars, renderVars, userVars>>

CatalogNext == SeedBegin \/ SeedMatch \/ SeedInsert \/ UpsertSpelled \/ DispatchSpelled

SpecCatalog == DispatchInit /\ [][CatalogNext]_vars

(***************************************************************************)
(* Claims about the catalogue of notification types.                       *)
(***************************************************************************)
\* the lowercase keys of the catalogue, and the spellings callers use for them
LowercaseKeys == DOMAIN DefaultTypes \cup {"weekly_digest"}

SpellingsOf(k) ==
    CASE k = "task_assigned" -> {"task_assigned", "Task_Assigned", "TASK_ASSIGNED"}
      [] k = "weekly_digest" -> {"weekly_digest", "Weekly_Digest"}
      [] OTHER -> {k}

\* the stored types have distinct lowercase keys, and findByKey under any
\* spelling of a key returns the type stored under the lowercase key
CatalogKeyed ==
    /\ \A k \in DOMAIN notification_types :
        /\ notification_types[k].key \in LowercaseKeys
        /\ \A j \in DOMAIN notification_types :
                notification_types[j].key = notification_types[k].key => j = k
    /\ \A k \in LowercaseKeys : \A s \in SpellingsOf(k) :
        findByKey(s) = IF \E j \in DOMAIN notification_types : notification_types[j].key = k
                       THEN <<notification_types[k]>> ELSE <<>>

\* C21: whatever upserts and seedings have run, two seedings side by side
\* included, no two stored types share a key and every stored key is lowercase;
\* findByKey under any spelling of a key returns the type stored under the
\* lowercase key, and createNotification under any spelling attaches that type.
C21_KeysLowercaseAndUnique ==
    /\ []CatalogKeyed
    /\ [][\A k \in LowercaseKeys : \A s \in SpellingsOf(k) :
            createNotification("U1", s, <<Lit("Hi")>>, "info", "", "", "")
            => IF \E j \in DOMAIN notification_types : notification_types[j].key = k
               THEN /\ res' = Outcome("createNotification", "ok", "")
                    /\ notifications'[nextId].notification_type_id = k
               ELSE res' = Outcome("createNotification", "error", "not found")]_vars

\* C21 witness: one of two seedings lost the race for a key, a type was upserted
\* as Weekly_Digest, and a notification dispatched under a mixed-case spelling
\* is attached to it
C21_Witness ==
    /\ \E s \in Seeders : seeding[s].failed
    /\ "weekly_digest" \in DOMAIN notification_types
    /\ res = Outcome("createNotification", "ok", "")
    /\ \E i \in DOMAIN notifications : notifications[i].notification_type_id = "weekly_digest"

\* what a type document says, its timestamp aside
TypeContent(doc) ==
    [key |-> doc.key, description |-> doc.description, template |-> doc.template]

\* C22: a run of seedDefaultTypes leaves exactly one type per default key, with
\* the default description and template, whatever they had been changed to, and
\* leaves the other types alone; a run that follows a run leaves the catalogue
\* as the first one left it.
C22_SeedingIdempotentAndRestoring ==
    [][res'.op = "seedDefaultTypes"
       => /\ DOMAIN notification_types' = DOMAIN notification_types \cup DOMAIN DefaultTypes
          /\ \A k \in DOMAIN DefaultTypes :
                TypeContent(notification_types'[k]) =
                    [key |-> k, description |-> DefaultDescriptions[k],
                     template |-> DefaultTypes[k]]
          /\ \A k \in DOMAIN notification_types \ DOMAIN DefaultTypes :
                notification_types'[k] = notification_types[k]
          /\ res.op = "seedDefaultTypes"
             => \A k \in DOMAIN notification_types :
                    TypeContent(notification_types'[k]) = TypeContent(notification_types[k])]_vars

\* C22 witness: seedDefaultTypes has just run, later than the first run could
\* have, and task_assigned has its default description and template
C22_Witness ==
    /\ res.op = "seedDefaultTypes"
    /\ now > 0
    /\ DOMAIN notification_types = DOMAIN DefaultTypes
    /\ notification_types["task_assigned"].updated_at = now
    /\ notification_types["task_assigned"].template = DefaultTypes["task_assigned"]
    /\ notification_types["task_assigned"].description = DefaultDescriptions["task_assigned"]
    /\ notifications # <<>>

(***************************************************************************)
(* Claims about the values createNotification accepts.                     *)
(***************************************************************************)
\* an entity type or a severity that is given and is not one of the listed values
OutsideKinds(et) == et # "" /\ et \notin NotifEntityTypes

OutsideSeverities(ty) == ty # "" /\ ty \notin NotifTypes

\* et without the blanks around it
Unpadded(et) ==
    IF \E v \in NotifEntityArgs : et = " " \o v \o " "
    THEN CHOOSE v \in NotifEntityArgs : et = " " \o v \o " "
    ELSE et

\* every stored notification has a listed severity and, when it has an entity
\* type, a listed one
StoredKindsListed ==
    \A i \in DOMAIN notifications :
        /\ notifications[i].type \in NotifTypes
        /\ notifications[i].entity_type # "" => notifications[i].entity_type \in NotifEntityTypes

\* C23 as stated: a createNotification call whose entity type or severity is
\* outside the listed values fails and stores nothing, and every stored
\* notification has a listed severity and, when present, a listed entity type.
C23_OutsideValuesRejected ==
    /\ []StoredKindsListed
    /\ [][\/ /\ res'.status = "error"
              /\ notifications' = notifications
           \/ \A ty \in TypeArgs, et \in NotifEntityArgs :
                (OutsideKinds(et) \/ OutsideSeverities(ty))
                => \A u \in UserArgs, k \in KeyArgs, t \in TitleArgs :
                        ~createNotification(u, k, t, ty, "", "", et)]_vars

\* C23 amended: a createNotification call whose entity type, the blanks around it
\* removed, or whose severity is outside the listed values fails and stores
\* nothing, and every stored notification has a listed severity and, when
\* present, a listed entity type.
C23_OutsideValuesRejectedAfterTrim ==
    /\ []StoredKindsListed
    /\ [][\/ /\ res'.status = "error"
              /\ notifications' = notifications
           \/ \A ty \in TypeArgs, et \in NotifEntityArgs :
                (OutsideKinds(Unpadded(et)) \/ OutsideSeverities(ty))
                => \A u \in UserArgs, k \in KeyArgs, t \in TitleArgs :
                        ~createNotification(u, k, t, ty, "", "", et)]_vars

\* C23 witness: a call has failed validation while a notification passed with
\* the entity type " tasks " or "tasks" is stored as tasks with severity success
C23_Witness ==
    /\ res = Outcome("createNotification", "error", "validation")
    /\ \E i \in DOMAIN notifications :
        /\ notifications[i].entity_type = "tasks"
        /\ notifications[i].type = "success"

(***************************************************************************)
(* Claims about the outcome of createLog.                                  *)
(***************************************************************************)
\* C24: a createLog call either resolves, and then exactly one record, the one
\* of this call, has been appended to the stored ones, or it rejects with the
\* validation or storage failure, and then the stored records are as they were;
\* no call resolves without its record and none stores more than one.
C24_OneRecordOrSurfacedFailure ==
    [][\/ /\ logRes'.status = "ok"
          /\ Len(activity_logs') = Len(activity_logs) + 1
          /\ SubSeq(activity_logs', 1, Len(activity_logs)) = activity_logs
          /\ activity_logs'[Len(activity_logs')]._id = nextLogId
          /\ activity_logs'[Len(activity_logs')].entity_type = logRes'.call.entity_type
          /\ activity_logs'[Len(activity_logs')].action = logRes'.call.action
       \/ /\ logRes'.status = "error"
          /\ logRes'.errors # {}
          /\ activity_logs' = activity_logs]_vars

\* C24 witness: the store has refused a valid record, the call has rejected
\* with the storage failure, and the one record written before is all that is stored
C24_Witness ==
    /\ logRes.status = "error"
    /\ logRes.errors = {"storage"}
    /\ Len(activity_logs) = 1

(***************************************************************************)
(* Specification SpecExpiry: notifications and audit records age together. *)
(* Time passes in one step of two years; one caller loads a notification   *)
(* and marks it, notifications are bulk-marked, one audit record is        *)
(* written, and the store expires read notifications and old audit records.*)
(***************************************************************************)
ExpiryTickSteps == {RetentionDays}

ExpiryTick ==
    /\ \E d \in ExpiryTickSteps : now + d <= MaxAuditDays /\ now' = now + d
    /\ UNCHANGED <<notification_types, notifications, nextId, docs, res, bulk, flightVars>>
    /\ UNCHANGED <<auditVars, sanVars, renderVars, userVars>>

RecordFirst ==
    /\ nextLogId = 1
    /\ createLog("A", "U", "users", "update", NullData, NullData, TRUE)
    /\ UNCHANGED now
    /\ UNCHANGED <<sanVars, notification_types, notifications, nextId, docs, res, bulk, flightVars,
                   renderVars, userVars>>

LoadOne ==
    /\ \E id \in 1..MaxNotifs : Load("p1", id)
    /\ UNCHANGED <<notification_types, now, bulk, flightVars>>
    /\ UNCHANGED <<auditVars, sanVars, renderVars, userVars>>

DropOne ==
    /\ Release("p1")
    /\ UNCHANGED <<notification_types, now, bulk, flightVars>>
    /\ UNCHANGED <<auditVars, sanVars, renderVars, userVars>>

MarkOneRead ==
    /\ markAsRead("p1")
    /\ UNCHANGED <<notification_types, now, bulk, flightVars>>
    /\ UNCHANGED <<auditVars, sanVars, renderVars, userVars>>

MarkOneUnread ==
    /\ markAsUnread("p1")
    /\ UNCHANGED <<notification_types, now, bulk, flightVars>>
    /\ UNCHANGED <<auditVars, sanVars, renderVars, userVars>>

ExpiryNext ==
    \/ DispatchOne \/ LoadOne \/ DropOne \/ MarkOneRead \/ MarkOneUnread
    \/ MarkAllAsRead \/ TTLSweep \/ RecordFirst \/ ExpiryTick \/ AuditExpire

SpecExpiry == NotifInit /\ [][ExpiryNext]_vars

(***************************************************************************)
(* Claims about eligibility for expiry.                                    *)
(***************************************************************************)
\* a stored audit record that has reached the retention age has it in the next
\* state too, if it is still stored
AuditStaysExpired ==
    \A i \in AuditExpired :
        \A j \in 1..Len(activity_logs') :
            activity_logs'[j]._id = activity_logs[i]._id => j \in AuditExpired'

\* C25 as stated: a notification that matches the cleanup criterion, read and
\* read_at older than the threshold, matches it in the next state unless it has
\* been deleted, whichever operation the step is; and an audit record past the
\* retention horizon stays past it.
C25_EligibilityMonotonic ==
    [][/\ \A d \in CleanupDays : \A i \in CleanupMatches(d) :
            i \in DOMAIN notifications' => i \in CleanupMatches(d)'
       /\ AuditStaysExpired]_vars

\* C25 amended: a notification that matches the cleanup criterion matches it in
\* the next state unless it has been deleted or the step is a markAsRead or a
\* markAsUnread on a loaded copy of it; and an audit record past the retention
\* horizon stays past it.
C25_EligibleUntilMarkedAgain ==
    [][/\ \A d \in CleanupDays : \A i \in CleanupMatches(d) :
            \/ i \notin DOMAIN notifications'
            \/ i \in CleanupMatches(d)'
            \/ \E p \in Procs : docs[p].id = i /\ (markAsRead(p) \/ markAsUnread(p))
       /\ AuditStaysExpired]_vars

\* C25 witness: two years after it was read a notification is still stored and
\* matches the cleanup criterion after a markAllAsRead, and an audit record past
\* the retention horizon is still stored
C25_Witness ==
    /\ res = Outcome("markAllAsRead", "ok", "")
    /\ \E i \in CleanupMatches(90) : notifications[i].read_at[1] + 730 <= now
    /\ AuditExpired # {}

(***************************************************************************)
(* Claims about what the read-state operations leave alone.                *)
(***************************************************************************)
\* a notification without its read state
Unmarked(doc) ==
    [user_id |-> doc.user_id, triggered_by |-> doc.triggered_by,
     notification_type_id |-> doc.notification_type_id,
     entity_type |-> doc.entity_type, entity_id |-> doc.entity_id,
     type |-> doc.type, title |-> doc.title, created_at |-> doc.created_at]

\* C26: in every step, markAsRead, markAsUnread and markAllAsRead among them, a
\* notification that stays stored keeps its recipient, triggered_by, type
\* reference, entity type, entity id, severity, title and created_at; and a
\* notification appears in the store only in a step of createNotification.
C26_ReadStateOnly ==
    [][/\ \A i \in DOMAIN notifications \cap DOMAIN notifications' :
            Unmarked(notifications'[i]) = Unmarked(notifications[i])
       /\ \A i \in DOMAIN notifications' \ DOMAIN notifications :
            /\ res' = Outcome("createNotification", "ok", "")
            /\ i = nextId
            /\ nextId' = nextId + 1]_vars

\* C26 witness: after a markAsRead, a markAsUnread or a markAllAsRead that
\* followed the passing of time, a notification created earlier is stored with
\* its read state written at the later time or cleared
C26_Witness ==
    /\ res.op \in {"markAsRead", "markAsUnread", "markAllAsRead"}
    /\ res.status = "ok"
    /\ \E i \in DOMAIN notifications :
        /\ notifications[i].created_at < now
        /\ notifications[i].is_read
        /\ notifications[i].read_at = At(now)
    /\ \E i \in DOMAIN notifications :
        /\ notifications[i].created_at < now
        /\ ~notifications[i].is_read

\* C28: while markAllAsRead(user) runs, and in every other step of dispatching
\* and time passing, a stored notification stays stored and either is exactly
\* as it was, or was an unread notification of that user and is now read as of
\* the call's time with nothing else changed; so the notifications of other
\* users and the user's read notifications, read_at included, are as they were.
C28_MarkAllTouchesOnlyUsersUnread ==
    [][\A i \in DOMAIN notifications :
          /\ i \in DOMAIN notifications'
          /\ \/ notifications'[i] = notifications[i]
             \/ /\ bulk.active
                /\ notifications[i].user_id = bulk.user
                /\ ~notifications[i].is_read
                /\ notifications'[i] =
                     [notifications[i] EXCEPT !.is_read = TRUE, !.read_at = At(bulk.at)]]_vars

\* C28 witness: a markAllAsRead for U1, started later than an earlier one
\* completed, has visited every document; the notification of U1 read by the
\* earlier call has the earlier read_at, and a notification of U2 is still unread
C28_Witness ==
    /\ res = Outcome("markAllAsRead", "ok", "")
    /\ bulk.active
    /\ bulk.user = "U1"
    /\ bulk.at > 0
    /\ bulk.todo = {}
    /\ \E i \in bulk.before :
        /\ notifications[i].user_id = "U1"
        /\ notifications[i].read_at = At(0)
    /\ \E i \in DOMAIN notifications :
        /\ notifications[i].user_id = "U2"
        /\ ~notifications[i].is_read

(***************************************************************************)
(* Specification SpecConcurrent: two callers run createNotification for    *)
(* the same recipient side by side, each call in its two steps.            *)
(***************************************************************************)
CallTitles == {<<Lit("Hi")>>, <<Lit("Yo")>>, <<>>}

CallLookup ==
    /\ \E p \in Procs, k \in KeyArgs, t \in CallTitles, ty \in {"info", "urgent"} :
            createNotificationLookup(p, "U1", k, t, ty, "", "", "")
    /\ UNCHANGED <<notification_types, now, docs, res, bulk, seeding>>
    /\ UNCHANGED <<auditVars, sanVars, renderVars, userVars>>

CallPersist ==
    /\ \E p \in Procs : createNotificationPersist(p)
    /\ UNCHANGED <<notification_types, now, docs, res, bulk, seeding>>
    /\ UNCHANGED <<auditVars, sanVars, renderVars, userVars>>

ConcurrentNext == CallLookup \/ CallPersist

SpecConcurrent == NotifInit /\ [][ConcurrentNext]_vars

(***************************************************************************)
(* Claims about concurrent dispatches.                                     *)
(***************************************************************************)
\* what createNotification run on its own does with the arguments of the call
\* of p: the document it stores, or none when it fails
AloneStores(p) ==
    LET a == calls[p].args
        doc == NewNotification(a.userId, castKey(a.notificationTypeKey), a.title, a.type,
                               a.triggeredBy, a.entityId, a.entityType)
    IN  IF castKey(a.notificationTypeKey) \in DOMAIN notification_types
           /\ ValidateNotification(doc) = {}
        THEN {doc}
        ELSE {}

\* the callers whose calls, run one after the other, store a notification
Storing == {p \in Procs : AloneStores(p) # {}}

\* C27: whatever the interleaving of the lookups and the persists of two calls,
\* a persist either stores the one complete notification of its call, leaving
\* the others as they were, or stores nothing and fails; and once both calls
\* have settled the stored notifications are, one for one, those that the calls
\* store when run one after the other, in either order.
C27_ConcurrentDispatchesCommute ==
    /\ [][\A p \in Procs :
            createNotificationPersist(p)
            => \/ /\ calls'[p].result.status = "error"
                  /\ notifications' = notifications
               \/ /\ calls'[p].result.status = "ok"
                  /\ DOMAIN notifications' = DOMAIN notifications \cup {nextId}
                  /\ nextId \notin DOMAIN notifications
                  /\ \A i \in DOMAIN notifications : notifications'[i] = notifications[i]
                  /\ AloneStores(p) = {notifications'[nextId]}]_vars
    /\ []((\A p \in Procs : calls[p].active /\ calls[p].settled)
          => \E f \in [Storing -> DOMAIN notifications] :
                /\ \A i \in DOMAIN notifications : \E p \in Storing : f[p] = i
                /\ \A p, q \in Storing : f[p] = f[q] => p = q
                /\ \A p \in Storing : AloneStores(p) = {notifications[f[p]]})

\* C27 witness: both calls have settled after the lookup of the second ran
\* before the persist of the first; both notifications are stored, the one of
\* the call entered first after the other
C27_Witness ==
    /\ \A p \in Procs : calls[p].active /\ calls[p].settled
    /\ DOMAIN notifications = {1, 2}
    /\ AloneStores("p1") = {notifications[2]}
    /\ AloneStores("p2") = {notifications[1]}
    /\ notifications[1].title # notifications[2].title

(***************************************************************************)
(* Specification SpecAuth: users are created, deactivated and activated,   *)
(* they log in, requests pass through authenticate, and days pass.         *)
(***************************************************************************)
MaxAuthDays == 1

MaxTokens == 2

\* a token that was not signed with the secret
ForgedToken == [userId |-> 1, exp |-> MaxAuthDays + AccessTokenDays + 1]

Login ==
    /\ \E e \in EmailArgs, pw \in BOOLEAN : login(e, pw)
    /\ Cardinality(tokens') <= MaxTokens
    /\ UNCHANGED <<authRes, boot>>
    /\ UNCHANGED <<auditVars, sanVars, notifVars, renderVars>>

Authenticate ==
    /\ \E t \in tokens \cup {NoToken, ForgedToken} : authenticate(t)
    /\ UNCHANGED boot
    /\ UNCHANGED <<auditVars, sanVars, notifVars, renderVars>>

AuthTick ==
    /\ now + 1 <= MaxAuthDays
    /\ now' = now + 1
    /\ UNCHANGED <<notification_types, notifications, nextId, docs, res, bulk, flightVars>>
    /\ UNCHANGED <<auditVars, sanVars, renderVars, userVars>>

AuthNext ==
    \/ CreateOneUser \/ Login \/ Authenticate \/ DeleteUser \/ ActivateUser
    \/ AuthTick \/ DropExisting

SpecAuth == UsersInit /\ [][AuthNext]_vars

(***************************************************************************)
(* Claims about authentication.                                            *)
(***************************************************************************)
\* the user with this _id is stored and inactive
Deactivated(id) == id \in DOMAIN users /\ ~users[id].is_active

\* C29: authenticate calls next when, and only when, the token verifies and its
\* user is stored and active at the time of the request, and answers 401
\* otherwise.  While a user is deactivated, from deleteUser until activateUser,
\* every request with a token of that user gets 401 and a login with that
\* user's email fails with 401 and signs no token; once the user is active
\* again, an unexpired token signed before is accepted.
C29_InactiveUserLockedOut ==
    [][/\ \A t \in tokens \cup {NoToken, ForgedToken} :
            authenticate(t)
            => /\ authRes'.next <=> /\ t \in tokens
                                    /\ now < t.exp
                                    /\ t.userId \in DOMAIN users
                                    /\ users[t.userId].is_active
               /\ ~authRes'.next => authRes'.code = 401
               /\ Deactivated(t.userId) => authRes' = [token |-> t, code |-> 401, next |-> FALSE]
       /\ \A id \in DOMAIN users : \A pw \in BOOLEAN :
            Deactivated(id) /\ login(users[id].email, pw)
            => /\ httpRes' = Response("login", 401, FALSE, 0)
               /\ tokens' = tokens]_vars

\* C29 witness: the user was activated by the last request to the user
\* controller, and a request with a token signed before that is let through
C29_Witness ==
    /\ httpRes.op = "activateUser"
    /\ httpRes.success
    /\ authRes.next
    /\ authRes.token \in tokens
    /\ authRes.token.userId = httpRes.id

(***************************************************************************)
(* Specification SpecBoot: the server process starts, over and over: each  *)
(* awaited step of connectDatabase resolves or rejects, the seeding runs   *)
(* upsert by upsert and may be cut short, and the process may be           *)
(* interrupted.                                                            *)
(***************************************************************************)
BootSeeder == "s1"

BootFrame ==
    /\ UNCHANGED <<notification_types, notifications, nextId, now, docs, res, bulk, flightVars>>
    /\ UNCHANGED <<auditVars, sanVars, renderVars, users, httpRes, tokens, authRes>>

StartServer == startServer /\ BootFrame

Connect == (\E ok \in BOOLEAN : connect(ok)) /\ BootFrame

InitializeModels == (\E ok \in BOOLEAN : initializeModels(ok)) /\ BootFrame

ValidateModels == (\E ok \in BOOLEAN : validateModels(ok)) /\ BootFrame

CreateIndexes == (\E ok \in BOOLEAN : createIndexes(ok)) /\ BootFrame

SeedDefaultDataBegin ==
    /\ seedDefaultDataBegin(BootSeeder)
    /\ UNCHANGED <<notifications, nextId, now, docs, res, bulk, calls>>
    /\ UNCHANGED <<auditVars, sanVars, renderVars, users, httpRes, tokens, authRes>>

SeedAbort ==
    /\ seedAbort(BootSeeder)
    /\ UNCHANGED <<notifications, nextId, now, docs, res, bulk, calls>>
    /\ UNCHANGED <<auditVars, sanVars, renderVars, userVars>>

SeedDefaultDataEnd ==
    /\ seedDefaultDataEnd(BootSeeder)
    /\ UNCHANGED <<notifications, nextId, now, docs, res, bulk, calls>>
    /\ UNCHANGED <<auditVars, sanVars, renderVars, users, httpRes, tokens, authRes>>

Listen == listen /\ BootFrame

Sigint ==
    /\ sigint
    /\ UNCHANGED <<notifications, nextId, now, docs, res, bulk, calls>>
    /\ UNCHANGED <<auditVars, sanVars, renderVars, users, httpRes, tokens, authRes>>

Restart == restart /\ BootFrame

BootNext ==
    \/ StartServer \/ Connect \/ InitializeModels \/ ValidateModels \/ CreateIndexes
    \/ SeedDefaultDataBegin \/ SeedMatch \/ SeedInsert \/ SeedAbort \/ SeedDefaultDataEnd
    \/ Listen \/ Sigint \/ Restart

SpecBoot == UsersInit /\ [][BootNext]_vars

(***************************************************************************)
(* Claims about startup.                                                   *)
(***************************************************************************)
\* the order of connectDatabase's steps, up to listening
BootOrder ==
    <<"starting", "connected", "initialized", "validated", "indexed", "seeding",
      "seeded", "listening">>

\* the steps before the seeding
BeforeSeeding == {"starting", "connected", "initialized", "validated"}

\* C30: the process goes through connect, model initialisation and validation,
\* index creation and the seeding attempt in this order, one after the other,
\* and listens only from the state in which the seeding attempt has returned.
\* A seeding that failed is logged and the process goes on to that state, from
\* which it listens; a failure of one of the steps before the seeding is logged
\* by startServer and ends the process, which does not listen afterwards.
C30_ListensAfterStartupSteps ==
    [][/\ \A n \in 1..Len(BootOrder) :
            boot'.step = BootOrder[n] /\ boot.step # boot'.step
            => boot.step = IF n = 1 THEN "off" ELSE BootOrder[n - 1]
       /\ boot.step = "seeding" /\ boot'.step # "seeding"
          /\ "MongoDB connection closed through app termination" \notin boot'.logged
            => /\ boot'.step = "seeded"
               /\ seeding[BootSeeder].failed
                    => "Error seeding default data" \in boot'.logged
       /\ "Failed to start server" \in boot'.logged /\ boot.step # "exited"
            => /\ boot.step \in BeforeSeeding
               /\ boot'.step = "exited"
       /\ boot.step = "exited" => boot'.step \in {"exited", "off"}]_vars

\* C30 witness: the server is listening after a seeding that was cut short and
\* logged, with only part of the default types stored
C30_Witness ==
    /\ boot.step = "listening"
    /\ "Error seeding default data" \in boot.logged
    /\ seeding[BootSeeder].failed
    /\ DOMAIN notification_types # {}
    /\ DOMAIN notification_types # DOMAIN DefaultTypes

====
